---- MODULE Spec2Model ----
(***************************************************************************)
(* Model of the allUserAudio aggregation pipeline of iLEAPP                *)
(* (scripts/artifacts/allUserAudio.py): path classification, content-hash  *)
(* deduplication, database context correlation and record synthesis.       *)
(*                                                                         *)
(* Strings are modelled as sequences of tokens.  A token is a maximal      *)
(* piece of a path that no pattern or substring test of the code splits:   *)
(* "/mobile/Library/Sounds/ringtone_custom.m4a" is                         *)
(* <<"/","mobile","/","Library","/","Sounds","/","ringtone","_","custom",  *)
(* ".m4a">>.  fnmatch's "*" then matches any run of tokens (separators     *)
(* included, as in Python's fnmatch), `x in s` is a contiguous run of      *)
(* tokens, and str.lower() maps every token to its lower-case form.        *)
(***************************************************************************)
EXTENDS Integers, Sequences, FiniteSets, TLC

(***************************************************************************)
(* Bounds.                                                                 *)
(***************************************************************************)
\* longest files_found list handed to one allUserAudio run
MaxFiles == 3

\* most calls that change the AggregationEngine in one behaviour
MaxCalls == 3

\* most database rows and media files one allUserPhotos run handles
MaxRecords == 2

\* most aggregation runs in one behaviour
MaxRuns == 2

(***************************************************************************)
(* Strings.                                                                *)
(***************************************************************************)
\* str.lower() on one token
LowerTok(t) ==
  CASE t = "Library" -> "library"
    [] t = "Sounds" -> "sounds"
    [] t = "Containers" -> "containers"
    [] t = "Data" -> "data"
    [] t = "Application" -> "application"
    [] t = "Documents" -> "documents"
    [] t = "Recordings" -> "recordings"
    [] t = "Shared" -> "shared"
    [] t = "AppGroup" -> "appgroup"
    [] t = "Message" -> "message"
    [] t = "Media" -> "media"
    [] t = "Voicemail" -> "voicemail"
    [] t = "VoiceTrigger" -> "voicetrigger"
    [] t = "SAT" -> "sat"
    [] t = "Bundle" -> "bundle"
    [] t = "System" -> "system"
    [] t = "Audio" -> "audio"
    [] t = "SMS" -> "sms"
    [] t = "Attachments" -> "attachments"
    [] t = "Application Support" -> "application support"
    [] t = "ChatStorage" -> "chatstorage"
    [] t = "Database" -> "database"
    [] t = "A1" -> "a1"
    [] t = "A2" -> "a2"
    [] t = "G1" -> "g1"
    [] t = "G2" -> "g2"
    [] t = "B1" -> "b1"
    [] t = "Foo" -> "foo"
    [] t = ".M4A" -> ".m4a"
    [] t = "WhatsApp" -> "whatsapp"
    [] t = "Voice Memos" -> "voice memos"
    [] t = "SMS/iMessage" -> "sms/imessage"
    [] t = "Telegram" -> "telegram"
    [] t = "Signal" -> "signal"
    [] t = "Discord" -> "discord"
    [] t = "Voice Memos: " -> "voice memos: "
    [] t = "Recordings2" -> "recordings2"
    [] OTHER -> t

\* str.lower()
Lower(s) == [i \in DOMAIN s |-> LowerTok(s[i])]

\* pairs <<k, t>>: the keyword k is a proper substring of the token t
TokSub ==
  { <<"voice", "voicetrigger">>, <<"voice", "voicemail">>,
    <<"voice", "voice memos">>, <<"memo", "voice memos">>,
    <<"Voice Memos", "Voice Memos: ">>,
    <<"sms", "sms/imessage">>, <<"imessage", "sms/imessage">>,
    <<"user", "userdata">>, <<"telegram", "telegram-data">> }

\* one-token `k in s`
InTok(k, s) == \E i \in DOMAIN s : s[i] = k \/ <<k, s[i]>> \in TokSub

\* `sub in s` for a run of tokens
In(sub, s) ==
  IF Len(sub) = 1 THEN InTok(sub[1], s)
  ELSE \E i \in 0..(Len(s) - Len(sub)) :
         \A j \in 1..Len(sub) : s[i + j] = sub[j]

\* index of the last "/" of a path, 0 when it has none
LastSep(p) ==
  IF \E i \in DOMAIN p : p[i] = "/"
  THEN CHOOSE i \in DOMAIN p : p[i] = "/" /\ \A j \in DOMAIN p : j > i => p[j] # "/"
  ELSE 0

\* os.path.basename
basename(p) == SubSeq(p, LastSep(p) + 1, Len(p))

\* the file extensions (a token of their own, always the last one)
Extensions ==
  {".m4a", ".mp3", ".wav", ".aac", ".amr", ".caf", ".ogg", ".opus",
   ".M4A", ".db", ".sqlite", ".app", ".bundle"}

\* os.path.splitext(name)[0]
splitext0(name) ==
  IF Len(name) > 1 /\ name[Len(name)] \in Extensions
  THEN SubSeq(name, 1, Len(name) - 1)
  ELSE name

\* str.endswith(ext) for an extension
endswith(s, ext) == Len(s) > 0 /\ s[Len(s)] = ext

\* fnmatch.fnmatch(name, pat) on a POSIX host (os.path.normcase is the
\* identity there): "*" matches any run of tokens, every other token itself
RECURSIVE fnmatch(_, _)
fnmatch(name, pat) ==
  IF pat = <<>> THEN name = <<>>
  ELSE IF Head(pat) = "*"
       THEN fnmatch(name, Tail(pat))
            \/ (name # <<>> /\ fnmatch(Tail(name), pat))
       ELSE name # <<>> /\ Head(name) = Head(pat)
            /\ fnmatch(Tail(name), Tail(pat))

(***************************************************************************)
(* The category rule table.                                                *)
(***************************************************************************)
SUPPORTED_AUDIO_EXTENSIONS ==
  {".m4a", ".mp3", ".wav", ".aac", ".amr", ".caf", ".ogg", ".opus"}

\* declaration order of the keys of AUDIO_CATEGORIES
CategoryOrder ==
  <<"USER_CONTENT", "COMMUNICATION_AUDIO", "VOICE_COMMANDS", "SYSTEM_AUDIO",
    "APP_ASSETS">>

AUDIO_CATEGORIES ==
  [ USER_CONTENT |->
      [ name |-> "User Content", forensic_relevance |-> "HIGH", score |-> 3,
        patterns |-> <<
          <<"*", "/", "Library", "/", "Sounds", "/", "ringtone", "_", "*">>,
          <<"*", "/", "Containers", "/", "Data", "/", "Application", "/", "*",
            "/", "Documents", "/", "*", ".m4a">>,
          <<"*", "/", "Containers", "/", "Data", "/", "Application", "/", "*",
            "/", "Documents", "/", "*", ".caf">>,
          <<"*", "/", "Containers", "/", "Data", "/", "Application", "/", "*",
            "/", "Documents", "/", "*", ".wav">>,
          <<"*", "/", "Containers", "/", "Data", "/", "Application", "/", "*",
            "/", "Documents", "/", "*", ".mp3">>,
          <<"*", "/", "Documents", "/", "Recordings", "/", "*">> >> ],
    COMMUNICATION_AUDIO |->
      [ name |-> "Communication Audio", forensic_relevance |-> "HIGH",
        score |-> 3,
        patterns |-> <<
          <<"*", "/", "mobile", "/", "Library", "/", "Voicemail", "/", "*">>,
          <<"*", "/", "Message", "/", "Media", "/", "*">>,
          <<"*", "/", "mobile", "/", "Library", "/", "SMS", "/",
            "Attachments", "/", "*">>,
          <<"*", "/", "postbox", "/", "media", "/", "*">>,
          <<"*", "/", "Library", "/", "Application Support", "/",
            "Attachments", "/", "*">> >> ],
    VOICE_COMMANDS |->
      [ name |-> "Voice Commands", forensic_relevance |-> "MEDIUM",
        score |-> 2,
        patterns |-> <<
          <<"*", "/", "Library", "/", "VoiceTrigger", "/", "*">> >> ],
    SYSTEM_AUDIO |->
      [ name |-> "System Audio", forensic_relevance |-> "MEDIUM", score |-> 2,
        patterns |-> <<
          <<"*", "/", "Library", "/", "Sounds", "/", "*">>,
          <<"*", "/", "System", "/", "Library", "/", "Audio", "/", "*">> >> ],
    APP_ASSETS |->
      [ name |-> "App Assets", forensic_relevance |-> "LOW", score |-> 1,
        patterns |-> <<
          <<"*", "/", "containers", "/", "Bundle", "/", "Application", "/",
            "*", "/", "*", ".app", "/", "*">>,
          <<"*", "/", "*", ".bundle", "/", "*">> >> ] ]

\* the patterns of category_id that the case-folded path matches
MatchesCategory(file_path, category_id) ==
  \E k \in DOMAIN AUDIO_CATEGORIES[category_id].patterns :
    fnmatch(Lower(file_path), Lower(AUDIO_CATEGORIES[category_id].patterns[k]))

determine_functional_category(file_path, file_size, audio_type) ==
  LET file_path_lower == Lower(file_path)
      filename == basename(file_path_lower)
  IN CASE audio_type = "USER_CONTENT" ->
            IF In(<<"ringtone">>, filename) THEN "Custom Ringtone"
            ELSE IF In(<<"recordings">>, file_path_lower)
                    \/ In(<<"voice memo">>, file_path_lower)
                    \/ In(<<"voicememo">>, file_path_lower)
                 THEN "Voice Recording"
                 ELSE "User Audio"
       [] audio_type = "COMMUNICATION_AUDIO" ->
            IF In(<<"voicemail">>, file_path_lower) THEN "Voicemail"
            ELSE IF In(<<"whatsapp">>, file_path_lower)
                    \/ In(<<"message">>, file_path_lower)
                    \/ In(<<"chat">>, file_path_lower)
                 THEN "Voice Message"
                 ELSE "Communication"
       [] audio_type = "VOICE_COMMANDS" ->
            IF In(<<"siri">>, file_path_lower)
               \/ In(<<"voicetrigger">>, file_path_lower)
            THEN "Siri Voice Trigger"
            ELSE "Voice Command"
       [] audio_type = "SYSTEM_AUDIO" ->
            IF In(<<"notification">>, filename) \/ In(<<"alert">>, filename)
            THEN "Notification Sound"
            ELSE IF In(<<"ringtone">>, filename) THEN "System Ringtone"
                 ELSE "System Sound"
       [] audio_type = "APP_ASSETS" ->
            IF In(<<"notification">>, filename) \/ In(<<"alert">>, filename)
               \/ In(<<"message">>, filename)
            THEN "App Notification"
            ELSE IF In(<<"ui">>, filename) \/ In(<<"button">>, filename)
                    \/ In(<<"click">>, filename) \/ In(<<"beep">>, filename)
                 THEN "UI Sound Effect"
                 ELSE "App Audio Asset"
       [] OTHER -> "Other"

\* classify_from that lets a later matching category override an earlier one
RECURSIVE classify_from_last(_, _, _)
classify_from_last(file_path, file_size, k) ==
  IF k > Len(CategoryOrder)
  THEN [ audio_type |-> "Unknown Audio", functional_category |-> "Unclassified",
         forensic_relevance |-> "MEDIUM", relevance_score |-> 2 ]
  ELSE LET rest == classify_from_last(file_path, file_size, k + 1) IN
       IF rest.audio_type # "Unknown Audio" THEN rest
       ELSE IF MatchesCategory(file_path, CategoryOrder[k])
            THEN [ audio_type |-> AUDIO_CATEGORIES[CategoryOrder[k]].name,
                   functional_category |->
                     determine_functional_category(file_path, file_size,
                                                   CategoryOrder[k]),
                   forensic_relevance |->
                     AUDIO_CATEGORIES[CategoryOrder[k]].forensic_relevance,
                   relevance_score |-> AUDIO_CATEGORIES[CategoryOrder[k]].score ]
            ELSE rest

\* the loop of classify_audio_file with the last category of the table as
\* its default
RECURSIVE classify_from_default_assets(_, _, _)
classify_from_default_assets(file_path, file_size, k) ==
  IF k > Len(CategoryOrder)
  THEN [ audio_type |-> AUDIO_CATEGORIES["APP_ASSETS"].name,
         functional_category |->
           determine_functional_category(file_path, file_size, "APP_ASSETS"),
         forensic_relevance |-> AUDIO_CATEGORIES["APP_ASSETS"].forensic_relevance,
         relevance_score |-> AUDIO_CATEGORIES["APP_ASSETS"].score ]
  ELSE IF MatchesCategory(file_path, CategoryOrder[k])
       THEN [ audio_type |-> AUDIO_CATEGORIES[CategoryOrder[k]].name,
              functional_category |->
                determine_functional_category(file_path, file_size,
                                              CategoryOrder[k]),
              forensic_relevance |->
                AUDIO_CATEGORIES[CategoryOrder[k]].forensic_relevance,
              relevance_score |-> AUDIO_CATEGORIES[CategoryOrder[k]].score ]
       ELSE classify_from_default_assets(file_path, file_size, k + 1)

\* PATTERN_PRIORITIES of audio_categorization_design.py
PATTERN_PRIORITIES ==
  [ USER_CONTENT |-> 90, COMMUNICATION_AUDIO |-> 85, VOICE_COMMANDS |-> 70,
    SYSTEM_AUDIO |-> 60, APP_ASSETS |-> 40, UNKNOWN |-> 10 ]

\* the loop of classify_audio_file from the k-th category on
RECURSIVE classify_from(_, _, _)
classify_from(file_path, file_size, k) ==
  IF k > Len(CategoryOrder)
  THEN [ audio_type |-> "Unknown Audio", functional_category |-> "Unclassified",
         forensic_relevance |-> "MEDIUM", relevance_score |-> 2 ]
  ELSE IF MatchesCategory(file_path, CategoryOrder[k])
       THEN [ audio_type |-> AUDIO_CATEGORIES[CategoryOrder[k]].name,
              functional_category |->
                determine_functional_category(file_path, file_size,
                                              CategoryOrder[k]),
              forensic_relevance |->
                AUDIO_CATEGORIES[CategoryOrder[k]].forensic_relevance,
              relevance_score |-> AUDIO_CATEGORIES[CategoryOrder[k]].score ]
       ELSE classify_from(file_path, file_size, k + 1)

classify_audio_file(file_path, file_size) ==
  classify_from(file_path, file_size, 1)

get_custom_default_indicator(file_path, audio_type) ==
  IF audio_type \in {"USER_CONTENT"} THEN "Custom"
  ELSE IF audio_type \in {"APP_ASSETS"} THEN "Default"
  ELSE IF In(<<"custom">>, Lower(file_path)) \/ In(<<"user">>, Lower(file_path))
       THEN "Custom"
       ELSE IF In(<<"system">>, Lower(file_path))
               \/ In(<<"default">>, Lower(file_path))
            THEN "Default"
            ELSE "Unknown"

(***************************************************************************)
(* Results of calls: a returned value, None, or a raised exception.        *)
(***************************************************************************)
None == [kind |-> "none"]
Raise == [kind |-> "raise"]
Ret(v) == [kind |-> "ret", val |-> v]

(***************************************************************************)
(* SQLite values, tables and the row-fetch collaborator.                   *)
(***************************************************************************)
Null == [t |-> "null", i |-> 0, s |-> <<>>]
IntV(n) == [t |-> "int", i |-> n, s |-> <<>>]
TextV(s) == [t |-> "text", i |-> 0, s |-> s]

\* Python truth value of a column value
Truthy(v) == (v.t = "int" /\ v.i # 0) \/ (v.t = "text" /\ v.s # <<>>)

\* the text SQLite compares under LIKE
AsText(v) == IF v.t = "int" THEN <<ToString(v.i)>> ELSE v.s

\* value LIKE '%arg%' (LIKE ignores the case of ASCII letters)
Like(v, arg) == v.t # "null" /\ In(Lower(arg), Lower(AsText(v)))

\* one condition of a WHERE clause (they are joined by OR) on a row
Holds(row, cond, args) ==
  CASE cond.op = "like" -> Like(row[cond.col], args[cond.arg])
    [] cond.op = "rowid" -> <<ToString(row.ROWID)>> = args[cond.arg]
    [] cond.op = "audio" ->
         row[cond.col].t = "text" /\ Len(row[cond.col].s) > 0
         /\ row[cond.col].s[1] = "audio"

\* does_table_exist_in_db: raises on a file SQLite cannot open or parse
does_table_exist_in_db(db, table) ==
  IF db.corrupt THEN Raise ELSE Ret(table \in DOMAIN db.tables)

\* get_sqlite_db_records(path, query, *params): the rows the query selects,
\* in table order; a file that cannot be opened, a table or column the
\* schema lacks, or a parameter count that differs from the number of
\* placeholders raises
get_sqlite_db_records(db, query, args) ==
  IF db.corrupt THEN Raise
  ELSE IF ~(query.tables \subseteq DOMAIN db.tables) THEN Raise
  ELSE IF ~(query.cols \subseteq db.tables[query.from].cols) THEN Raise
  ELSE IF query.placeholders # Len(args) THEN Raise
  ELSE Ret(SelectSeq(db.tables[query.from].rows,
                     LAMBDA row : \E k \in DOMAIN query.where :
                                    Holds(row, query.where[k], args)))

\* seconds between the Unix epoch and the Cocoa / Core Data epoch
CocoaEpoch == 978307200

\* convert_cocoa_core_data_ts_to_utc
convert_cocoa_core_data_ts_to_utc(v) ==
  IF v.t = "int" THEN Ret(<<"utc:", ToString(v.i + CocoaEpoch)>>) ELSE Raise

\* convert_unix_ts_to_utc
convert_unix_ts_to_utc(v) ==
  IF v.t = "int" THEN Ret(<<"utc:", ToString(v.i)>>) ELSE Raise

\* dict.update
update(a, b) ==
  [k \in DOMAIN a \cup DOMAIN b |-> IF k \in DOMAIN b THEN b[k] ELSE a[k]]

(***************************************************************************)
(* The per-application lookups.  X_try is the body of the function's try   *)
(* block (Raise: an exception left it), X the function with its handler.   *)
(***************************************************************************)
\* f"{value:.2f}s" (durations are whole seconds in the model)
Format2f(v) == IF v.t = "int" THEN Ret(<<ToString(v.i), ".00", "s">>) ELSE Raise

\* text[:100]; every text of the model is shorter than 100 characters
Truncate100(s) == s

\* participant.split('@')[0] if '@' in participant else participant
BeforeAt(s) ==
  IF \E i \in DOMAIN s : s[i] = "@"
  THEN SubSeq(s, 1, (CHOOSE i \in DOMAIN s :
                       s[i] = "@" /\ \A j \in 1..(i - 1) : s[j] # "@") - 1)
  ELSE s

\* the handler `except Exception: logfunc(...)` followed by `return None`
Caught(r) == IF r.kind = "raise" THEN None ELSE r

analyze_voice_memos_db_try(db, audio_filename) ==
  LET e == does_table_exist_in_db(db, "ZRECORDING") IN
  IF e.kind = "raise" THEN Raise
  ELSE IF ~e.val THEN None
  ELSE
    LET r == get_sqlite_db_records(db,
               [ from |-> "ZRECORDING", tables |-> {"ZRECORDING"},
                 cols |-> {"ZCREATIONDATE", "ZTITLE", "ZURL", "ZDURATION"},
                 placeholders |-> 1,
                 where |-> << [col |-> "ZURL", op |-> "like", arg |-> 1] >> ],
               <<audio_filename>>)
    IN
    IF r.kind = "raise" THEN Raise
    ELSE IF r.val = <<>> THEN None
    ELSE
      LET record == r.val[1]
          creation_date == IF Truthy(record.ZCREATIONDATE)
                           THEN convert_cocoa_core_data_ts_to_utc(record.ZCREATIONDATE)
                           ELSE Ret(<<>>)
          title == IF Truthy(record.ZTITLE) THEN AsText(record.ZTITLE) ELSE <<>>
          duration == IF Truthy(record.ZDURATION) THEN Format2f(record.ZDURATION)
                      ELSE Ret(<<>>)
      IN
      IF creation_date.kind = "raise" \/ duration.kind = "raise" THEN Raise
      ELSE Ret([ database_reference |-> <<"Voice Memos: ">> \o title,
                 database_timestamp |-> creation_date.val,
                 participant_info |-> <<"User recording: ">> \o title,
                 duration |-> duration.val ])

analyze_voice_memos_db(db, audio_filename) ==
  Caught(analyze_voice_memos_db_try(db, audio_filename))

\* the LEFT JOINs are folded into the attachment rows: text is m.text and
\* phone_number is h.id of the joined message and handle (Null without one)
analyze_sms_db_try(db, audio_filename) ==
  LET e == does_table_exist_in_db(db, "attachment") IN
  IF e.kind = "raise" THEN Raise
  ELSE IF ~e.val THEN None
  ELSE
    LET r == get_sqlite_db_records(db,
               [ from |-> "attachment",
                 tables |-> {"attachment", "message", "handle"},
                 cols |-> {"created_date", "filename"},
                 placeholders |-> 2,
                 where |-> << [col |-> "filename", op |-> "like", arg |-> 1],
                              [col |-> "filename", op |-> "like", arg |-> 2] >> ],
               <<audio_filename, splitext0(audio_filename)>>)
    IN
    IF r.kind = "raise" THEN Raise
    ELSE IF r.val = <<>> THEN None
    ELSE
      LET record == r.val[1]
          created_date == IF Truthy(record.created_date)
                          THEN convert_cocoa_core_data_ts_to_utc(record.created_date)
                          ELSE Ret(<<>>)
          phone_number == IF Truthy(record.phone_number)
                          THEN AsText(record.phone_number) ELSE <<"Unknown">>
          message_text == IF Truthy(record.text) THEN record.text ELSE TextV(<<>>)
      IN
      IF created_date.kind = "raise" THEN Raise
      \* message_text[:100] on a number raises TypeError
      ELSE IF message_text.t = "int" THEN Raise
      ELSE Ret([ database_reference |-> <<"SMS/iMessage", " ", "attachment">>,
                 database_timestamp |-> created_date.val,
                 participant_info |-> <<"From/To: ">> \o phone_number,
                 message_context |-> Truncate100(message_text.s) ])

analyze_sms_db(db, audio_filename) ==
  Caught(analyze_sms_db_try(db, audio_filename))

WhatsAppTables == <<"ZWAMESSAGE", "ZWAMEDIAITEM", "message", "media_item">>

\* the query analyze_whatsapp_db builds for a table
WhatsAppQuery(table) ==
  IF table = "ZWAMESSAGE"
  THEN [ from |-> table, tables |-> {table},
         cols |-> {"ZMESSAGEDATE", "ZFROMJID", "ZTOJID", "ZMEDIAITEM"},
         placeholders |-> 1,
         where |-> << [col |-> "ZMEDIAITEM", op |-> "like", arg |-> 1] >> ]
  ELSE [ from |-> table, tables |-> {table},
         cols |-> {"filename", "path"},
         placeholders |-> 2,
         where |-> << [col |-> "filename", op |-> "like", arg |-> 1],
                      [col |-> "path", op |-> "like", arg |-> 2] >> ]

\* the loop over tables_to_check from the k-th table on
RECURSIVE whatsapp_tables_from(_, _, _)
whatsapp_tables_from(db, audio_filename, k) ==
  IF k > Len(WhatsAppTables) THEN None
  ELSE
    LET table == WhatsAppTables[k]
        e == does_table_exist_in_db(db, table)
    IN
    IF e.kind = "raise" THEN Raise
    ELSE IF ~e.val THEN whatsapp_tables_from(db, audio_filename, k + 1)
    ELSE
      LET r == get_sqlite_db_records(db, WhatsAppQuery(table), <<audio_filename>>)
      IN
      IF r.kind = "raise" THEN Raise
      ELSE IF r.val = <<>> THEN whatsapp_tables_from(db, audio_filename, k + 1)
      ELSE
        LET record == r.val[1] IN
        IF table = "ZWAMESSAGE"
        THEN
          LET message_date == IF Truthy(record.ZMESSAGEDATE)
                              THEN convert_cocoa_core_data_ts_to_utc(record.ZMESSAGEDATE)
                              ELSE Ret(<<>>)
              from_jid == IF Truthy(record.ZFROMJID) THEN record.ZFROMJID
                          ELSE TextV(<<>>)
              to_jid == IF Truthy(record.ZTOJID) THEN record.ZTOJID
                        ELSE TextV(<<>>)
              participant == IF Truthy(from_jid) THEN from_jid ELSE to_jid
          IN
          IF message_date.kind = "raise" THEN Raise
          \* '@' in participant on a number raises TypeError
          ELSE IF Truthy(participant) /\ participant.t = "int" THEN Raise
          ELSE Ret([ database_reference |->
                       <<"WhatsApp", " ", "voice", " ", "message">>,
                     database_timestamp |-> message_date.val,
                     participant_info |->
                       IF Truthy(participant)
                       THEN <<"Participant: ">> \o BeforeAt(participant.s)
                       ELSE <<>> ])
        ELSE Ret([ database_reference |-> <<"WhatsApp", " ", "media">>,
                   database_timestamp |-> <<>>,
                   participant_info |-> <<"WhatsApp", " ", "conversation">> ])

analyze_whatsapp_db_try(db, audio_filename) ==
  whatsapp_tables_from(db, audio_filename, 1)

analyze_whatsapp_db(db, audio_filename) ==
  Caught(analyze_whatsapp_db_try(db, audio_filename))

TelegramTables == <<"messages", "media", "documents">>

\* the loop over tables_to_check of analyze_telegram_db; a failing query is
\* swallowed by the inner bare except and the loop goes on
RECURSIVE telegram_tables_from(_, _, _)
telegram_tables_from(db, audio_filename, k) ==
  IF k > Len(TelegramTables) THEN None
  ELSE
    LET table == TelegramTables[k]
        e == does_table_exist_in_db(db, table)
    IN
    IF e.kind = "raise" THEN Raise
    ELSE IF ~e.val THEN telegram_tables_from(db, audio_filename, k + 1)
    ELSE
      LET r == get_sqlite_db_records(db,
                 [ from |-> table, tables |-> {table},
                   cols |-> {"data", "filename", "path"},
                   placeholders |-> 3,
                   where |-> << [col |-> "data", op |-> "like", arg |-> 1],
                                [col |-> "filename", op |-> "like", arg |-> 2],
                                [col |-> "path", op |-> "like", arg |-> 3] >> ],
                 <<audio_filename, audio_filename, audio_filename>>)
      IN
      IF r.kind = "raise" \/ r.val = <<>>
      THEN telegram_tables_from(db, audio_filename, k + 1)
      ELSE Ret([ database_reference |->
                   <<"Telegram", " ", "voice", " ", "message">>,
                 database_timestamp |-> <<>>,
                 participant_info |-> <<"Telegram", " ", "conversation">> ])

analyze_telegram_db_try(db, audio_filename) ==
  telegram_tables_from(db, audio_filename, 1)

analyze_telegram_db(db, audio_filename) ==
  Caught(analyze_telegram_db_try(db, audio_filename))

SignalTables == <<"part", "message", "attachment">>

\* the LEFT JOIN of part with message is folded into the part rows
\* (date_sent, address)
SignalQuery(table) ==
  IF table = "part"
  THEN [ from |-> table, tables |-> {"part", "message"},
         cols |-> {"data_uri", "content_type", "mid"},
         placeholders |-> 1,
         where |-> << [col |-> "data_uri", op |-> "like", arg |-> 1],
                      [col |-> "content_type", op |-> "audio", arg |-> 0] >> ]
  ELSE [ from |-> table, tables |-> {table},
         cols |-> {"filename", "path", "data"},
         placeholders |-> 3,
         where |-> << [col |-> "filename", op |-> "like", arg |-> 1],
                      [col |-> "path", op |-> "like", arg |-> 2],
                      [col |-> "data", op |-> "like", arg |-> 3] >> ]

RECURSIVE signal_tables_from(_, _, _)
signal_tables_from(db, audio_filename, k) ==
  IF k > Len(SignalTables) THEN None
  ELSE
    LET table == SignalTables[k]
        e == does_table_exist_in_db(db, table)
    IN
    IF e.kind = "raise" THEN Raise
    ELSE IF ~e.val THEN signal_tables_from(db, audio_filename, k + 1)
    ELSE
      LET r == get_sqlite_db_records(db, SignalQuery(table),
                 IF table = "part" THEN <<audio_filename>>
                 ELSE <<audio_filename, audio_filename, audio_filename>>)
      IN
      IF r.kind = "raise" \/ r.val = <<>>
      THEN signal_tables_from(db, audio_filename, k + 1)
      ELSE
        LET record == r.val[1] IN
        IF table = "part"
        THEN
          LET date_sent == IF Truthy(record.date_sent)
                           THEN convert_unix_ts_to_utc(record.date_sent)
                           ELSE Ret(<<>>)
              address == IF Truthy(record.address) THEN AsText(record.address)
                         ELSE <<"Unknown">>
          IN
          IF date_sent.kind = "raise"
          THEN signal_tables_from(db, audio_filename, k + 1)
          ELSE Ret([ database_reference |->
                       <<"Signal", " ", "voice", " ", "message">>,
                     database_timestamp |-> date_sent.val,
                     participant_info |-> <<"Signal contact: ">> \o address ])
        ELSE Ret([ database_reference |->
                     <<"Signal", " ", "voice", " ", "message">>,
                   database_timestamp |-> <<>>,
                   participant_info |-> <<"Signal", " ", "conversation">> ])

analyze_signal_db_try(db, audio_filename) ==
  signal_tables_from(db, audio_filename, 1)

analyze_signal_db(db, audio_filename) ==
  Caught(analyze_signal_db_try(db, audio_filename))

DiscordTables == <<"attachments", "messages", "media_cache">>

\* the LEFT JOIN of attachments with messages is folded into the
\* attachments rows (timestamp, author_id)
DiscordQuery(table) ==
  IF table = "attachments"
  THEN [ from |-> table, tables |-> {"attachments", "messages"},
         cols |-> {"filename", "url", "size", "message_id"},
         placeholders |-> 1,
         where |-> << [col |-> "filename", op |-> "like", arg |-> 1] >> ]
  ELSE [ from |-> table, tables |-> {table},
         cols |-> {"filename", "url", "data"},
         placeholders |-> 3,
         where |-> << [col |-> "filename", op |-> "like", arg |-> 1],
                      [col |-> "url", op |-> "like", arg |-> 2],
                      [col |-> "data", op |-> "like", arg |-> 3] >> ]

RECURSIVE discord_tables_from(_, _, _)
discord_tables_from(db, audio_filename, k) ==
  IF k > Len(DiscordTables) THEN None
  ELSE
    LET table == DiscordTables[k]
        e == does_table_exist_in_db(db, table)
    IN
    IF e.kind = "raise" THEN Raise
    ELSE IF ~e.val THEN discord_tables_from(db, audio_filename, k + 1)
    ELSE
      LET r == get_sqlite_db_records(db, DiscordQuery(table),
                 IF table = "attachments" THEN <<audio_filename>>
                 ELSE <<audio_filename, audio_filename, audio_filename>>)
      IN
      IF r.kind = "raise" \/ r.val = <<>>
      THEN discord_tables_from(db, audio_filename, k + 1)
      ELSE
        LET record == r.val[1] IN
        IF table = "attachments"
        THEN
          LET author_id == IF Truthy(record.author_id)
                           THEN AsText(record.author_id) ELSE <<"Unknown">>
              \* int(timestamp) / 1000, then convert_unix_ts_to_utc; a
              \* timestamp int() rejects leaves discord_date empty
              discord_date ==
                IF Truthy(record.timestamp) /\ record.timestamp.t = "int"
                THEN convert_unix_ts_to_utc(IntV(record.timestamp.i \div 1000)).val
                ELSE <<>>
          IN Ret([ database_reference |->
                     <<"Discord", " ", "voice", " ", "attachment">>,
                   database_timestamp |-> discord_date,
                   participant_info |-> <<"Discord user: ">> \o author_id ])
        ELSE Ret([ database_reference |->
                     <<"Discord", " ", "voice", " ", "attachment">>,
                   database_timestamp |-> <<>>,
                   participant_info |-> <<"Discord", " ", "conversation">> ])

analyze_discord_db_try(db, audio_filename) ==
  discord_tables_from(db, audio_filename, 1)

analyze_discord_db(db, audio_filename) ==
  Caught(analyze_discord_db_try(db, audio_filename))

analyze_voicemail_db_try(db, audio_filename) ==
  LET e == does_table_exist_in_db(db, "voicemail") IN
  IF e.kind = "raise" THEN Raise
  ELSE IF ~e.val THEN None
  ELSE
    LET voicemail_id == splitext0(audio_filename)
        r == get_sqlite_db_records(db,
               [ from |-> "voicemail", tables |-> {"voicemail"},
                 cols |-> {"date", "sender", "callback_num", "duration", "flags"},
                 placeholders |-> 3,
                 where |-> << [col |-> "ROWID", op |-> "rowid", arg |-> 1],
                              [col |-> "sender", op |-> "like", arg |-> 2],
                              [col |-> "callback_num", op |-> "like", arg |-> 3] >> ],
               <<voicemail_id, voicemail_id, voicemail_id>>)
    IN
    IF r.kind = "raise" THEN Raise
    ELSE IF r.val = <<>> THEN None
    ELSE
      LET record == r.val[1]
          voicemail_date == IF Truthy(record.date)
                            THEN convert_unix_ts_to_utc(record.date)
                            ELSE Ret(<<>>)
          sender == IF Truthy(record.sender) THEN AsText(record.sender)
                    ELSE <<"Unknown">>
          callback_num == IF Truthy(record.callback_num)
                          THEN AsText(record.callback_num) ELSE <<>>
          duration == IF Truthy(record.duration)
                      THEN AsText(record.duration) \o <<"s">> ELSE <<>>
          participant_info == IF sender # <<"Unknown">> THEN sender
                              ELSE callback_num
      IN
      IF voicemail_date.kind = "raise" THEN Raise
      ELSE Ret([ database_reference |-> <<"System", " ", "Voicemail">>,
                 database_timestamp |-> voicemail_date.val,
                 participant_info |-> <<"From: ">> \o participant_info,
                 duration |-> duration ])

analyze_voicemail_db(db, audio_filename) ==
  Caught(analyze_voicemail_db_try(db, audio_filename))

(***************************************************************************)
(* The correlator.                                                         *)
(***************************************************************************)
\* the signatures in the order of the if/elif chain of
\* analyze_database_context, with the boost and confidence each one sets
\* (confidence in hundredths)
Signatures ==
  << [id |-> "VOICE_MEMOS", boost |-> "USER_CONTENT", confidence |-> 95],
     [id |-> "SMS", boost |-> "COMMUNICATION_AUDIO", confidence |-> 90],
     [id |-> "WHATSAPP", boost |-> "COMMUNICATION_AUDIO", confidence |-> 90],
     [id |-> "TELEGRAM", boost |-> "COMMUNICATION_AUDIO", confidence |-> 85],
     [id |-> "SIGNAL", boost |-> "COMMUNICATION_AUDIO", confidence |-> 85],
     [id |-> "DISCORD", boost |-> "COMMUNICATION_AUDIO", confidence |-> 80],
     [id |-> "VOICEMAIL", boost |-> "COMMUNICATION_AUDIO", confidence |-> 95] >>

\* the path test of each branch, on db_path.lower()
SignatureTest(id, db_path_lower) ==
  CASE id = "VOICE_MEMOS" -> In(<<"recordings", ".sqlite">>, db_path_lower)
    [] id = "SMS" -> In(<<"sms", ".db">>, db_path_lower)
    [] id = "WHATSAPP" -> In(<<"chatstorage", ".sqlite">>, db_path_lower)
    [] id = "TELEGRAM" -> In(<<"db_sqlite">>, db_path_lower)
                          /\ In(<<"telegram">>, db_path_lower)
    [] id = "SIGNAL" -> In(<<"database">>, db_path_lower)
                        /\ In(<<"signal">>, db_path_lower)
    [] id = "DISCORD" -> In(<<"database", "_">>, db_path_lower)
                         /\ In(<<"discord">>, db_path_lower)
    [] id = "VOICEMAIL" -> In(<<"voicemail", ".db">>, db_path_lower)

\* the lookup each branch calls
Lookup(id, db, audio_filename) ==
  CASE id = "VOICE_MEMOS" -> analyze_voice_memos_db(db, audio_filename)
    [] id = "SMS" -> analyze_sms_db(db, audio_filename)
    [] id = "WHATSAPP" -> analyze_whatsapp_db(db, audio_filename)
    [] id = "TELEGRAM" -> analyze_telegram_db(db, audio_filename)
    [] id = "SIGNAL" -> analyze_signal_db(db, audio_filename)
    [] id = "DISCORD" -> analyze_discord_db(db, audio_filename)
    [] id = "VOICEMAIL" -> analyze_voicemail_db(db, audio_filename)

\* the branch of the if/elif chain a database path takes: the index of the
\* first signature whose path test holds, 0 when none does
Branch(db_path) ==
  IF \E k \in DOMAIN Signatures : SignatureTest(Signatures[k].id, Lower(db_path))
  THEN CHOOSE k \in DOMAIN Signatures :
         /\ SignatureTest(Signatures[k].id, Lower(db_path))
         /\ \A j \in 1..(k - 1) : ~SignatureTest(Signatures[j].id, Lower(db_path))
  ELSE 0

EmptyContext ==
  [ database_reference |-> <<>>, database_timestamp |-> <<>>,
    participant_info |-> <<>>, classification_boost |-> "None",
    confidence_score |-> 100 ]

(***************************************************************************)
(* The extracted filesystem the run works on.  A file is named by its      *)
(* index in Files; str(f) is its path.  An audio file carries what         *)
(* os.path.exists, os.stat and open give for it: content is the SHA-256 of *)
(* its bytes, readable whether open() and read() succeed, mtime < 0 a      *)
(* modification time datetime.fromtimestamp rejects.  A database file      *)
(* carries its schema and rows, or corrupt when SQLite cannot parse it.    *)
(***************************************************************************)
Mobile == <<"/", "mobile", "/">>
AppData == Mobile \o <<"Containers", "/", "Data", "/", "Application", "/">>
AppGroup == Mobile \o <<"Containers", "/", "Shared", "/", "AppGroup", "/">>

AudioFile(path, exists, size, mtime, readable, content) ==
  [ path |-> path, exists |-> exists, size |-> size, mtime |-> mtime,
    readable |-> readable, content |-> content ]

DbFile(path, corrupt, tables) ==
  [ path |-> path, corrupt |-> corrupt, tables |-> tables ]

Files ==
  << \* 1: a custom ringtone
     AudioFile(Mobile \o <<"Library", "/", "Sounds", "/", "ringtone", "_",
                           "custom", ".m4a">>, TRUE, 120000, 1000, TRUE, "h1"),
     \* 2, 3: a recording and its copy, byte-identical
     AudioFile(AppData \o <<"A1", "/", "Documents", "/", "rec1", ".caf">>,
               TRUE, 2048, 1001, TRUE, "h2"),
     AudioFile(AppData \o <<"A1", "/", "Documents", "/", "Recordings", "/",
                            "rec1", "_", "copy", ".caf">>,
               TRUE, 2048, 1002, TRUE, "h2"),
     \* 4: a WhatsApp voice message
     AudioFile(AppGroup \o <<"G1", "/", "Message", "/", "Media", "/", "40",
                             ".m4a">>, TRUE, 2000000, 1003, TRUE, "h3"),
     \* 5: a voicemail
     AudioFile(Mobile \o <<"Library", "/", "Voicemail", "/", "7", ".amr">>,
               TRUE, 1024, 1004, TRUE, "h4"),
     \* 6: the bytes of 4 as an SMS attachment that open() refuses
     AudioFile(Mobile \o <<"Library", "/", "SMS", "/", "Attachments", "/",
                           "40", ".M4A">>, TRUE, 2000000, 1005, FALSE, "h3"),
     \* 7: an app bundle sound
     AudioFile(<<"/", "containers", "/", "Bundle", "/", "Application", "/",
                 "B1", "/", "Foo", ".app", "/", "click", ".caf">>,
               TRUE, 500, 1006, TRUE, "h5"),
     \* 8: a file no pattern matches, unreadable
     AudioFile(Mobile \o <<"Media", "/", "song", ".ogg">>,
               TRUE, 1048577, 1007, FALSE, "h6"),
     \* 9: a path the search returned that is not on disk
     AudioFile(Mobile \o <<"Library", "/", "Sounds", "/", "alert", ".caf">>,
               FALSE, 0, 0, FALSE, ""),
     \* 10: the bytes of 1 with a modification time out of range
     AudioFile(Mobile \o <<"Library", "/", "VoiceTrigger", "/", "SAT", "/",
                           "audio", ".wav">>, TRUE, 120000, -1, TRUE, "h1"),
     \* 11: Voice Memos
     DbFile(AppData \o <<"A1", "/", "Documents", "/", "Recordings", ".sqlite">>,
            FALSE,
            [ ZRECORDING |->
                [ cols |-> {"ZCREATIONDATE", "ZTITLE", "ZURL", "ZDURATION"},
                  rows |-> <<
                    [ ROWID |-> 1, ZCREATIONDATE |-> IntV(700000000),
                      ZTITLE |-> TextV(<<"memo1">>),
                      ZURL |-> TextV(<<"Recordings", "/", "rec1", ".caf">>),
                      ZDURATION |-> IntV(12) ],
                    [ ROWID |-> 2, ZCREATIONDATE |-> Null,
                      ZTITLE |-> TextV(<<"memo2">>),
                      ZURL |-> TextV(<<"Recordings", "/", "40", ".m4a">>),
                      ZDURATION |-> Null ] >> ] ]),
     \* 12: WhatsApp, Core Data schema: the media path is in ZWAMEDIAITEM
     DbFile(AppGroup \o <<"G1", "/", "ChatStorage", ".sqlite">>, FALSE,
            [ ZWAMESSAGE |->
                [ cols |-> {"ZMESSAGEDATE", "ZFROMJID", "ZTOJID", "ZMEDIAITEM"},
                  rows |-> <<
                    [ ROWID |-> 5, ZMESSAGEDATE |-> IntV(700000100),
                      ZFROMJID |-> TextV(<<"4915", "@", "s.whatsapp.net">>),
                      ZTOJID |-> Null, ZMEDIAITEM |-> IntV(12) ] >> ],
              ZWAMEDIAITEM |->
                [ cols |-> {"ZMEDIALOCALPATH", "ZMEDIATYPE", "ZMESSAGE"},
                  rows |-> <<
                    [ ROWID |-> 12, ZMEDIATYPE |-> IntV(3),
                      ZMESSAGE |-> IntV(5),
                      ZMEDIALOCALPATH |->
                        TextV(<<"Media", "/", "40", ".m4a">>) ] >> ] ]),
     \* 13: WhatsApp, a ZWAMESSAGE whose ZMEDIAITEM holds the media path
     DbFile(AppGroup \o <<"G2", "/", "ChatStorage", ".sqlite">>, FALSE,
            [ ZWAMESSAGE |->
                [ cols |-> {"ZMESSAGEDATE", "ZFROMJID", "ZTOJID", "ZMEDIAITEM"},
                  rows |-> <<
                    [ ROWID |-> 5, ZMESSAGEDATE |-> IntV(700000100),
                      ZFROMJID |-> TextV(<<"4915", "@", "s.whatsapp.net">>),
                      ZTOJID |-> Null,
                      ZMEDIAITEM |->
                        TextV(<<"Media", "/", "40", ".m4a">>) ] >> ] ]),
     \* 14: SMS / iMessage
     DbFile(Mobile \o <<"Library", "/", "SMS", "/", "sms", ".db">>, FALSE,
            [ attachment |->
                [ cols |-> {"created_date", "filename"},
                  rows |-> <<
                    [ ROWID |-> 1, created_date |-> IntV(700000200),
                      filename |-> TextV(<<"Attachments", "/", "40", ".M4A">>),
                      text |-> Null, phone_number |-> TextV(<<"+4930">>) ] >> ],
              message |-> [cols |-> {"text", "handle_id"}, rows |-> <<>>],
              handle |-> [cols |-> {"id"}, rows |-> <<>>] ]),
     \* 15: voicemail
     DbFile(Mobile \o <<"Library", "/", "Voicemail", "/", "voicemail", ".db">>,
            FALSE,
            [ voicemail |->
                [ cols |-> {"date", "sender", "callback_num", "duration",
                            "flags"},
                  rows |-> <<
                    [ ROWID |-> 7, date |-> IntV(1600000000), sender |-> Null,
                      callback_num |-> TextV(<<"+4930">>),
                      duration |-> IntV(9), flags |-> IntV(0) ] >> ] ]),
     \* 16: a carved Voice Memos database SQLite cannot parse
     DbFile(AppData \o <<"A2", "/", "Documents", "/", "Recordings", ".sqlite">>,
            TRUE, <<>>),
     \* 17: Signal: every audio part satisfies the lookup
     DbFile(AppGroup \o <<"signal", "/", "database", ".sqlite">>, FALSE,
            [ part |->
                [ cols |-> {"data_uri", "content_type", "mid"},
                  rows |-> <<
                    [ ROWID |-> 1, data_uri |-> TextV(<<"att", "/", "9">>),
                      content_type |-> TextV(<<"audio", "/", "aac">>),
                      mid |-> IntV(3), date_sent |-> IntV(1600000300),
                      address |-> Null ] >> ],
              message |-> [cols |-> {"date_sent", "address"}, rows |-> <<>>] ]),
     \* 18: Discord, extracted under a folder that names Signal as well
     DbFile(<<"/", "signal", "_", "discord", "/", "mobile", "/", "Containers",
              "/", "Data", "/", "Application", "/", "A2", "/", "Documents", "/",
              "Database", "_", "1", ".sqlite">>, FALSE,
            [ attachments |->
                [ cols |-> {"filename", "url", "size", "message_id"},
                  rows |-> <<
                    [ ROWID |-> 1, filename |-> TextV(<<"click", ".caf">>),
                      url |-> TextV(<<"cdn", "/", "click", ".caf">>),
                      size |-> IntV(500), message_id |-> IntV(8),
                      timestamp |-> IntV(1600000400),
                      author_id |-> IntV(77) ] >> ],
              messages |-> [cols |-> {"id", "timestamp", "author_id"},
                            rows |-> <<>>] ]),
     \* 19: Telegram, the postbox database under the name the search
     \* pattern */telegram-data/account-*/postbox/db/db_sqlite* delivers
     DbFile(<<"/", "telegram-data", "/", "account-1", "/", "postbox", "/",
              "db", "/", "db_sqlite">>, FALSE,
            [ media |->
                [ cols |-> {"data", "filename", "path"},
                  rows |-> <<
                    [ ROWID |-> 1, data |-> Null,
                      filename |-> TextV(<<"song", ".ogg">>),
                      path |-> TextV(<<"media", "/", "song", ".ogg">>) ] >> ] ])
  >>

\* str(f)
str(f) == Files[f].path

\* the audio files and the database files among Files
AudioIds == {f \in DOMAIN Files : "content" \in DOMAIN Files[f]}
DbIds == {f \in DOMAIN Files : "tables" \in DOMAIN Files[f]}

\* db_files of analyze_database_context: the files whose name ends in .db
\* or .sqlite, in files_found order
is_db_file ==
  [ f \in DOMAIN Files |->
      endswith(str(f), ".db") \/ endswith(str(f), ".sqlite") ]

db_files_of(files_found) == SelectSeq(files_found, LAMBDA f : is_db_file[f])

\* the lookup each branch calls, without the handler inside the lookup
LookupTry(id, db, audio_filename) ==
  CASE id = "VOICE_MEMOS" -> analyze_voice_memos_db_try(db, audio_filename)
    [] id = "SMS" -> analyze_sms_db_try(db, audio_filename)
    [] id = "WHATSAPP" -> analyze_whatsapp_db_try(db, audio_filename)
    [] id = "TELEGRAM" -> analyze_telegram_db_try(db, audio_filename)
    [] id = "SIGNAL" -> analyze_signal_db_try(db, audio_filename)
    [] id = "DISCORD" -> analyze_discord_db_try(db, audio_filename)
    [] id = "VOICEMAIL" -> analyze_voicemail_db_try(db, audio_filename)

\* what the lookup of the branch a database takes does for every audio
\* file name of Files before any handler: a context, None (no such table
\* or no row) or Raise (the file cannot be parsed, the query fails)
ProbeTryTable ==
  [ d \in DbIds |-> [ a \in AudioIds |->
      IF Branch(str(d)) = 0 THEN None
      ELSE LookupTry(Signatures[Branch(str(d))].id, Files[d],
                     basename(str(a))) ] ]

\* the body of the try block for one database: the lookup of the branch its
\* path takes (None when it takes none)
probe_db(db_file, audio_filename) ==
  IF Branch(str(db_file)) = 0 THEN None
  ELSE Lookup(Signatures[Branch(str(db_file))].id, Files[db_file],
              audio_filename)

\* probe_db for every database and every audio file name of Files
ProbeTable ==
  [ d \in DbIds |-> [ a \in AudioIds |-> probe_db(d, basename(str(a))) ] ]

\* the signature (boost, confidence) of the branch each database takes
BranchTable ==
  [ d \in DbIds |-> IF Branch(str(d)) = 0 THEN [id |-> "NONE"]
                    ELSE Signatures[Branch(str(d))] ]

\* what one pass of the loop over db_files does with the database d for
\* the audio file a: the context it returns, None when the lookup found
\* nothing, Raise when an exception reached the handler of the loop
context_of(found, signature) ==
  IF found.kind = "ret"
  THEN Ret(update(update(EmptyContext, found.val),
                  [ classification_boost |-> signature.boost,
                    confidence_score |-> signature.confidence ]))
  ELSE found

ContextTable ==
  [ d \in DbIds |-> [ a \in AudioIds |->
      context_of(ProbeTable[d][a], BranchTable[d]) ] ]

\* context_from that returns at the first database a signature recognises,
\* whether or not its lookup found a row
RECURSIVE context_from_recognised(_, _, _)
context_from_recognised(db_files, audio_file, k) ==
  IF k > Len(db_files) THEN Ret(EmptyContext)
  ELSE IF BranchTable[db_files[k]].id # "NONE"
       THEN Ret(update(IF ProbeTable[db_files[k]][audio_file].kind = "ret"
                       THEN update(EmptyContext,
                                   ProbeTable[db_files[k]][audio_file].val)
                       ELSE EmptyContext,
                       [ classification_boost |-> BranchTable[db_files[k]].boost,
                         confidence_score |->
                           BranchTable[db_files[k]].confidence ]))
       ELSE context_from_recognised(db_files, audio_file, k + 1)

\* context_from without the early return: the last database that returns a
\* context wins
RECURSIVE context_from_last(_, _, _)
context_from_last(db_files, audio_file, k) ==
  IF k > Len(db_files) THEN Ret(EmptyContext)
  ELSE LET rest == context_from_last(db_files, audio_file, k + 1) IN
       IF rest.val # EmptyContext THEN rest
       ELSE IF ContextTable[db_files[k]][audio_file].kind = "ret"
            THEN ContextTable[db_files[k]][audio_file]
            ELSE rest

\* the loop over db_files from the k-th database on: the first context
\* returned; a lookup that found nothing and an exception (logged by the
\* handler) both let the loop go on
first_returned(found, rest) == IF found.kind = "ret" THEN found ELSE rest

RECURSIVE context_from(_, _, _)
context_from(db_files, audio_file, k) ==
  IF k > Len(db_files) THEN Ret(EmptyContext)
  ELSE first_returned(ContextTable[db_files[k]][audio_file],
                      context_from(db_files, audio_file, k + 1))

\* the databases the loop over db_files reaches from the k-th on, in
\* order: it ends at the first one whose branch returns the context
RECURSIVE probed_from(_, _, _)
probed_from(db_files, audio_file, k) ==
  IF k > Len(db_files) THEN <<>>
  ELSE IF ContextTable[db_files[k]][audio_file].kind = "ret"
       THEN <<db_files[k]>>
       ELSE <<db_files[k]>> \o probed_from(db_files, audio_file, k + 1)

\* audio_file_path is given as the file it names: the lookups search for
\* os.path.basename of its path
analyze_database_context(files_found, audio_file) ==
  context_from(db_files_of(files_found), audio_file, 1)

(***************************************************************************)
(* allUserAudio.                                                           *)
(***************************************************************************)
\* calculate_file_hash: the SHA-256 of the bytes, '' when open or read fails
calculate_file_hash(f) == IF Files[f].readable THEN Files[f].content ELSE ""

\* is_duplicate that also skips a file without a hash
is_duplicate_or_empty(file_hash, seen) == file_hash = "" \/ file_hash \in seen

\* `file_hash and file_hash in seen_hashes`
is_duplicate(file_hash, seen) == file_hash # "" /\ file_hash \in seen

\* add_hash that records nothing
add_hash_never(file_hash, seen) == seen

\* `if file_hash: seen_hashes.add(file_hash)`
add_hash(file_hash, seen) == IF file_hash # "" THEN seen \cup {file_hash} ELSE seen

\* datetime.fromtimestamp(st_mtime).strftime('%Y-%m-%d %H:%M:%S UTC'); a
\* negative mtime of the model stands for an st_mtime outside the range
\* datetime supports, for which fromtimestamp raises
format_mtime(mtime) ==
  IF mtime < 0 THEN Raise ELSE Ret(<<"local:", ToString(mtime)>>)

\* f"{n / d:.2f}": n / d rounded to hundredths, ties to even
Fixed2(n, d) ==
  LET q == (n * 100) \div d
      r == (n * 100) % d
      h == IF 2 * r > d \/ (2 * r = d /\ q % 2 = 1) THEN q + 1 ELSE q
  IN <<ToString(h \div 100), ".", ToString((h % 100) \div 10),
       ToString(h % 10)>>

\* the file size column
format_size(file_size) ==
  IF file_size > 1024 * 1024 THEN Fixed2(file_size, 1024 * 1024) \o <<" MB">>
  ELSE IF file_size > 1024 THEN Fixed2(file_size, 1024) \o <<" KB">>
  ELSE <<ToString(file_size), " bytes">>

\* the path after the first '/mobile/', the whole path without one
relative_path_of(p) ==
  IF In(Mobile, p)
  THEN LET i == CHOOSE i \in 0..(Len(p) - 3) :
                  /\ SubSeq(p, i + 1, i + 3) = Mobile
                  /\ \A j \in 0..(i - 1) : SubSeq(p, j + 1, j + 3) # Mobile
       IN SubSeq(p, i + 4, Len(p))
  ELSE p

\* the first path component that ends in .app, without the .app
app_name_of(p) ==
  LET i == CHOOSE i \in DOMAIN p :
             /\ p[i] = ".app" /\ (i = Len(p) \/ p[i + 1] = "/")
             /\ \A j \in 1..(i - 1) : ~(p[j] = ".app" /\ p[j + 1] = "/")
      start == LastSep(SubSeq(p, 1, i)) + 1
  IN SelectSeq(SubSeq(p, start, i), LAMBDA t : t # ".app")

extract_source_app(file_path) ==
  LET l == Lower(file_path) IN
  IF In(<<"/", "library", "/", "voicemail", "/">>, l) THEN <<"System Voicemail">>
  ELSE IF In(<<"/", "library", "/", "voicetrigger", "/">>, l)
  THEN <<"Siri/Voice Triggers">>
  ELSE IF In(<<"/", "library", "/", "sms", "/">>, l)
  THEN <<"Messages (SMS/iMessage)">>
  ELSE IF In(<<"/", "library", "/", "sounds", "/">>, l) THEN <<"System Audio">>
  ELSE IF In(<<"whatsapp">>, l) THEN <<"WhatsApp">>
  ELSE IF In(<<"telegram">>, l) THEN <<"Telegram">>
  ELSE IF In(<<"signal">>, l) THEN <<"Signal">>
  ELSE IF In(<<"discord">>, l) THEN <<"Discord">>
  ELSE IF In(<<"voice">>, l) /\ In(<<"memo">>, l) THEN <<"Voice Memos">>
  ELSE IF In(<<"/", "bundle", "/", "application", "/">>, l)
  THEN IF \E i \in DOMAIN file_path :
            file_path[i] = ".app" /\ (i = Len(file_path) \/ file_path[i + 1] = "/")
       THEN app_name_of(file_path)
       ELSE <<"Third-party App">>
  ELSE <<"Unknown">>

\* the functional category after a boost to boost_category
boosted_functional_category(boost_category, database_reference, functional_category) ==
  LET ref == Lower(database_reference) IN
  IF boost_category = "USER_CONTENT" /\ In(<<"Voice Memos">>, database_reference)
  THEN "Voice Recording"
  ELSE IF boost_category = "COMMUNICATION_AUDIO"
  THEN IF In(<<"voicemail">>, ref) THEN "Voicemail"
       ELSE IF In(<<"whatsapp">>, ref) \/ In(<<"telegram">>, ref)
               \/ In(<<"signal">>, ref) \/ In(<<"discord">>, ref)
               \/ In(<<"sms">>, ref) \/ In(<<"imessage">>, ref)
       THEN "Voice Message"
       ELSE functional_category
  ELSE functional_category

\* `if db_context["database_reference"]`: a context was found
is_enhanced(db_context) == db_context["database_reference"] # <<>>

\* classification_method that asks for a database timestamp
classification_method_by_timestamp(db_context) ==
  IF db_context["database_timestamp"] # <<>> THEN "Database-enhanced"
  ELSE "Path-based"

\* classification_method
classification_method_of(db_context) ==
  IF is_enhanced(db_context) THEN "Database-enhanced" ELSE "Path-based"

\* database_timestamp that takes the timestamp of any context found, empty
\* or not
timestamp_of_context(mod_time, db_context) ==
  IF is_enhanced(db_context) THEN db_context["database_timestamp"]
  ELSE mod_time

\* database_timestamp: the file modification time unless a context was
\* found and carries a timestamp
timestamp_of(mod_time, db_context) ==
  IF is_enhanced(db_context) /\ db_context["database_timestamp"] # <<>>
  THEN db_context["database_timestamp"] ELSE mod_time

\* the boost is applied: a context was found, it carries a boost, and the
\* boost is a key of AUDIO_CATEGORIES
is_boosted(db_context) ==
  /\ is_enhanced(db_context)
  /\ db_context["classification_boost"] # "None"
  /\ db_context["classification_boost"] \in DOMAIN AUDIO_CATEGORIES

\* category_of that overwrites the name only
category_keeps_score(path_class, db_context) ==
  [ audio_type |->
      IF is_boosted(db_context)
      THEN AUDIO_CATEGORIES[db_context["classification_boost"]].name
      ELSE path_class.audio_type,
    forensic_relevance |-> path_class.forensic_relevance,
    relevance_score |-> path_class.relevance_score ]

\* audio_type, forensic_relevance and relevance_score after the boost
category_of(path_class, db_context) ==
  IF is_boosted(db_context)
  THEN LET boosted_info == AUDIO_CATEGORIES[db_context["classification_boost"]]
       IN [ audio_type |-> boosted_info.name,
            forensic_relevance |-> boosted_info.forensic_relevance,
            relevance_score |-> boosted_info.score ]
  ELSE [ audio_type |-> path_class.audio_type,
         forensic_relevance |-> path_class.forensic_relevance,
         relevance_score |-> path_class.relevance_score ]

\* functional_category that keeps what the path gave
functional_category_of_path(path_class, db_context) ==
  path_class.functional_category

\* functional_category after the boost
functional_category_of(path_class, db_context) ==
  IF is_boosted(db_context)
  THEN boosted_functional_category(db_context["classification_boost"],
         db_context["database_reference"], path_class.functional_category)
  ELSE path_class.functional_category

\* the row appended for a file, from its metadata, its path classification
\* and its database context
synthesize(file_path_str, file_size, mod_time, path_class, db_context) ==
  LET category == category_of(path_class, db_context) IN
  [ timestamp |-> timestamp_of(mod_time, db_context),
    audio_type |-> category.audio_type,
    functional_category |-> functional_category_of(path_class, db_context),
    forensic_relevance |-> category.forensic_relevance,
    relevance_score |-> category.relevance_score,
    file_path |-> relative_path_of(file_path_str),
    file_size |-> format_size(file_size),
    duration |-> IF is_enhanced(db_context) /\ "duration" \in DOMAIN db_context
                 THEN db_context["duration"] ELSE <<>>,
    source_app |-> extract_source_app(file_path_str),
    database_reference |-> IF is_enhanced(db_context)
                           THEN db_context["database_reference"] ELSE <<>>,
    classification_method |-> classification_method_of(db_context),
    custom_default |->
      get_custom_default_indicator(file_path_str, category.audio_type),
    participant_info |-> IF is_enhanced(db_context)
                         THEN db_context["participant_info"] ELSE <<>>,
    source_file |-> file_path_str ]

\* audio_files: the files whose lower-cased name ends in an audio
\* extension, in files_found order
is_audio_file ==
  [ f \in DOMAIN Files |->
      \E ext \in SUPPORTED_AUDIO_EXTENSIONS : endswith(Lower(str(f)), ext) ]

audio_files_of(files_found) ==
  SelectSeq(files_found, LAMBDA f : is_audio_file[f])

\* classify_audio_file for every audio file of Files
ClassTable ==
  [ a \in AudioIds |-> classify_audio_file(str(a), Files[a].size) ]

\* the contexts analyze_database_context can return for the audio file a
ContextsOf(a) ==
  {EmptyContext}
    \cup {r.val : r \in {x \in {ContextTable[d][a] : d \in DbIds} : x.kind = "ret"}}

\* synthesize for every audio file whose metadata can be read and every
\* context it can get
RowTable ==
  [ a \in {b \in AudioIds : format_mtime(Files[b].mtime).kind = "ret"} |->
      [ c \in ContextsOf(a) |->
          synthesize(str(a), Files[a].size, format_mtime(Files[a].mtime).val,
                     ClassTable[a], c) ] ]

NoClass ==
  [ audio_type |-> "", functional_category |-> "", forensic_relevance |-> "",
    relevance_score |-> 0 ]

\* the row of the table for the context, computed afresh for a context
\* the table does not hold
row_of(rows, db_context, fresh) ==
  IF db_context \in DOMAIN rows THEN rows[db_context] ELSE fresh

\* the pass with the hash taken and inserted before the metadata is read
pass_of_hash_first(file_path, seen, mod_time, file_hash, path_class, db_context) ==
  LET blank == [ outcome |-> "not_found", seen_hashes |-> seen, rows |-> <<>>,
                 file_hash |-> "", path_class |-> NoClass,
                 db_context |-> EmptyContext ]
  IN
  IF ~Files[file_path].exists THEN blank
  ELSE IF is_duplicate(file_hash, seen)
  THEN [blank EXCEPT !.outcome = "duplicate", !.file_hash = file_hash]
  ELSE IF mod_time.kind = "raise" \/ db_context.kind = "raise"
  THEN [blank EXCEPT !.outcome = "raise", !.file_hash = file_hash,
                     !.seen_hashes = add_hash(file_hash, seen)]
  ELSE [ outcome |-> "emitted",
         seen_hashes |-> add_hash(file_hash, seen),
         rows |-> << row_of(RowTable[file_path], db_context.val,
                            synthesize(str(file_path), Files[file_path].size,
                                       mod_time.val, path_class,
                                       db_context.val)) >>,
         file_hash |-> file_hash, path_class |-> path_class,
         db_context |-> db_context.val ]

\* what one pass of the try block of the loop does for file_path, given
\* what analyze_database_context does for it: outcome "not_found",
\* "duplicate" or "emitted", or "raise" when an exception leaves the block;
\* seen_hashes as the pass leaves it; rows the row it appended, if any; the
\* other fields are its local variables
pass_of(file_path, seen, mod_time, file_hash, path_class, db_context) ==
  LET blank == [ outcome |-> "not_found", seen_hashes |-> seen, rows |-> <<>>,
                 file_hash |-> "", path_class |-> NoClass,
                 db_context |-> EmptyContext ]
  IN
  IF ~Files[file_path].exists THEN blank
  ELSE IF mod_time.kind = "raise" THEN [blank EXCEPT !.outcome = "raise"]
  ELSE IF is_duplicate(file_hash, seen)
  THEN [blank EXCEPT !.outcome = "duplicate", !.file_hash = file_hash]
  ELSE IF db_context.kind = "raise"
  THEN [blank EXCEPT !.outcome = "raise", !.file_hash = file_hash,
                     !.seen_hashes = add_hash(file_hash, seen),
                     !.path_class = path_class]
  ELSE [ outcome |-> "emitted",
         seen_hashes |-> add_hash(file_hash, seen),
         rows |-> << row_of(RowTable[file_path], db_context.val,
                            synthesize(str(file_path), Files[file_path].size,
                                       mod_time.val, path_class,
                                       db_context.val)) >>,
         file_hash |-> file_hash, path_class |-> path_class,
         db_context |-> db_context.val ]

loop_body_try(file_path, files_found, seen) ==
  pass_of(file_path, seen, format_mtime(Files[file_path].mtime),
          calculate_file_hash(file_path), ClassTable[file_path],
          analyze_database_context(files_found, file_path))

\* the pass without a handler
loop_body_unhandled(file_path, files_found, seen) ==
  loop_body_try(file_path, files_found, seen)

\* the pass with its handler: `except Exception` logs the error and the
\* loop continues with the next file
handled(r) == IF r.outcome = "raise" THEN [r EXCEPT !.outcome = "error"] ELSE r

loop_body(file_path, files_found, seen) ==
  handled(loop_body_try(file_path, files_found, seen))

(***************************************************************************)
(* AggregationEngine (scripts/aggregation_engine.py).  A dict is the       *)
(* sequence of its <<key, value>> items in insertion order.  The list      *)
(* _processing_errors is an object of the heap: the engine and whoever got *)
(* the list from the engine hold its address.                              *)
(***************************************************************************)
RECURSIVE DictIndex(_, _, _)
DictIndex(d, k, i) ==
  IF i > Len(d) THEN 0
  ELSE IF d[i][1] = k THEN i ELSE DictIndex(d, k, i + 1)

\* `k in d`
DictHas(d, k) == DictIndex(d, k, 1) # 0

\* d[k] of a defaultdict(int): 0 for a missing key
DictGet(d, k) == IF DictHas(d, k) THEN d[DictIndex(d, k, 1)][2] ELSE 0

\* d[k] = v: a new key goes to the end, a known key keeps its place
put_at(d, i, k, v) ==
  IF i = 0 THEN Append(d, <<k, v>>) ELSE [d EXCEPT ![i] = <<k, v>>]

DictSet(d, k, v) == put_at(d, DictIndex(d, k, 1), k, v)

\* d[k] += n on a defaultdict(int)
DictAdd(d, k, n) == DictSet(d, k, DictGet(d, k) + n)

\* sum(d.values())
RECURSIVE SumValues(_)
SumValues(d) == IF d = <<>> THEN 0 ELSE d[1][2] + SumValues(Tail(d))

\* sorted(d.items(), key=lambda x: x[1], reverse=True): by value,
\* descending; items of equal value keep their order
RECURSIVE InsertDesc(_, _)
InsertDesc(sorted, item) ==
  IF sorted = <<>> THEN <<item>>
  ELSE IF sorted[1][2] >= item[2]
       THEN <<sorted[1]>> \o InsertDesc(Tail(sorted), item)
       ELSE <<item>> \o sorted

RECURSIVE SortedDesc(_)
SortedDesc(d) ==
  IF d = <<>> THEN <<>>
  ELSE InsertDesc(SortedDesc(SubSeq(d, 1, Len(d) - 1)), d[Len(d)])

\* the attributes reset() assigns; errors_at is the address of the new,
\* empty _processing_errors list; self has no attributes (<<>>) when
\* __init__ calls reset
reset_keeps_counts(self, errors_at) ==
  [ _messaging_apps |->
      IF "_messaging_apps" \in DOMAIN self THEN self._messaging_apps ELSE <<>>,
    _social_media_apps |-> <<>>,
    _location_sources |-> <<>>,
    _device_info |-> <<>>,
    _timeline_events |-> <<>>,
    _artifact_counts |-> <<>>,
    _processing_errors |-> errors_at,
    _initialized |-> self._initialized ]

\* reset assigns the seven attributes and leaves _initialized as it is
reset(self, errors_at) ==
  [ _messaging_apps |-> <<>>,
    _social_media_apps |-> <<>>,
    _location_sources |-> <<>>,
    _device_info |-> <<>>,
    _timeline_events |-> <<>>,
    _artifact_counts |-> <<>>,
    _processing_errors |-> errors_at,
    _initialized |-> self._initialized ]

\* the object super().__new__ creates: it has no attribute of its own and
\* reads _initialized from the class, where it is False
NoInstance == [ _initialized |-> FALSE ]

\* __new__ on the class whose _instance is the given one
new(instance) == IF instance = None THEN NoInstance ELSE instance

\* __init__ that resets at every construction
init_every_time(self, errors_at) ==
  [ reset(self, errors_at) EXCEPT !._initialized = TRUE ]

\* __init__: reset and set _initialized on the first construction only
init(self, errors_at) ==
  IF ~self._initialized
  THEN [ reset(self, errors_at) EXCEPT !._initialized = TRUE ]
  ELSE self

\* AggregationEngine(), and cls() of the class methods: __new__, then
\* __init__ on what it returned; errors_at is the address of the list a
\* reset would create
construct(instance, errors_at) == init(new(instance), errors_at)

\* report_messaging_count, report_social_media_count, report_location_data
count_overwritten(self, counter, key, count) ==
  [ self EXCEPT ![counter] = DictSet(@, key, count) ]

report_count(self, counter, key, count) ==
  [ self EXCEPT ![counter] = DictAdd(@, key, count) ]

report_messaging_count(self, app_name, message_count) ==
  report_count(self, "_messaging_apps", app_name, message_count)

report_social_media_count(self, app_name, activity_count) ==
  report_count(self, "_social_media_apps", app_name, activity_count)

report_location_data(self, source, location_count) ==
  report_count(self, "_location_sources", source, location_count)

\* report_artifact_processed: the count is assigned
artifact_count_accumulated(self, artifact_name, record_count) ==
  [ self EXCEPT !._artifact_counts = DictAdd(@, artifact_name, record_count) ]

report_artifact_processed(self, artifact_name, record_count) ==
  [ self EXCEPT !._artifact_counts = DictSet(@, artifact_name, record_count) ]

report_device_info(self, key, value) ==
  [ self EXCEPT !._device_info = DictSet(@, key, value) ]

\* report_processing_error appends to the list at self._processing_errors
report_processing_error(errors, artifact_name, error_msg) ==
  Append(errors, [artifact |-> artifact_name, error |-> error_msg])

\* has_data
has_data(self) ==
  \/ self._messaging_apps # <<>>
  \/ self._social_media_apps # <<>>
  \/ self._location_sources # <<>>
  \/ self._device_info # <<>>
  \/ self._artifact_counts # <<>>

\* len([count for count in d.values() if count > 0])
CountPositive(d) == Len(SelectSeq(d, LAMBDA item : item[2] > 0))

\* get_dashboard_data: what it returns.  errors_len is the length of the
\* list at self._processing_errors; "errors" is that list itself, given by
\* its address, every other part is built by the call
get_dashboard_data(self, errors_len) ==
  [ summary |->
      [ total_messages |-> SumValues(self._messaging_apps),
        total_social_activities |-> SumValues(self._social_media_apps),
        total_location_points |-> SumValues(self._location_sources),
        total_artifacts_processed |-> CountPositive(self._artifact_counts),
        processing_errors |-> errors_len ],
    messaging_apps |->
      [ apps |-> SortedDesc(self._messaging_apps),
        total |-> SumValues(self._messaging_apps) ],
    social_media_apps |->
      [ apps |-> SortedDesc(self._social_media_apps),
        total |-> SumValues(self._social_media_apps) ],
    location_sources |->
      [ sources |-> SortedDesc(self._location_sources),
        total |-> SumValues(self._location_sources) ],
    device_info |-> self._device_info,
    artifact_counts |-> self._artifact_counts,
    errors |-> self._processing_errors ]

(***************************************************************************)
(* allUserPhotos, for a files_found that holds Photos.sqlite and           *)
(* ChatStorage.sqlite databases only: the other four sources find no file  *)
(* of theirs.  A row of a query carries what the run reads of it: its      *)
(* path in the database, its timestamp (0: none) and found, the content    *)
(* hashes calculate_file_hash returns for those of its candidate paths     *)
(* that exist, in the order the candidates are tried ("": the file cannot  *)
(* be read).                                                               *)
(***************************************************************************)
\* rows of the asset query of a Photos.sqlite
PhotoRecords ==
  { [ key |-> "100APPLE/IMG_0001.JPG", timestamp |-> 2, found |-> <<"p1">> ],
    \* a copy of IMG_0001
    [ key |-> "100APPLE/IMG_0002.JPG", timestamp |-> 1, found |-> <<"p1">> ],
    \* no file on disk, no creation date
    [ key |-> "100APPLE/IMG_0003.JPG", timestamp |-> 0, found |-> <<>> ],
    \* the bytes of IMG_0001 under DCIM, other bytes under PhotoData
    [ key |-> "101APPLE/IMG_0004.JPG", timestamp |-> 1, found |-> <<"p1", "p2">> ],
    \* a file that cannot be read
    [ key |-> "101APPLE/IMG_0005.HEIC", timestamp |-> 2, found |-> <<"">> ] }

\* rows of the media query of a ChatStorage.sqlite
WhatsAppRecords ==
  { \* IMG_0001, sent in a chat
    [ media_path |-> "Media/a/1.jpg", media_type |-> "Photo",
      message_date |-> 2, found |-> <<"p1">> ],
    [ media_path |-> "Media/a/2.jpg", media_type |-> "Photo",
      message_date |-> 0, found |-> <<"w1">> ],
    [ media_path |-> "Media/a/3.opus", media_type |-> "Audio",
      message_date |-> 1, found |-> <<"h4">> ],
    [ media_path |-> "", media_type |-> "Photo",
      message_date |-> 1, found |-> <<>> ],
    \* a file that cannot be read
    [ media_path |-> "Media/a/5.jpg", media_type |-> "Photo",
      message_date |-> 1, found |-> <<"">> ] }

\* files the seeker finds under the media folders of WhatsApp
WhatsAppFiles ==
  { [ file_path |-> "Message/Media/a/1.jpg", media_type |-> "Photo",
      file_hash |-> "p1", mtime |-> 2 ],
    [ file_path |-> "Message/Media/a/2.jpg", media_type |-> "Photo",
      file_hash |-> "w1", mtime |-> 1 ],
    [ file_path |-> "Message/Media/a/4.mp4", media_type |-> "Video",
      file_hash |-> "", mtime |-> 1 ],
    \* the bytes of the voice message 40.m4a of Files under a video name
    [ file_path |-> "Message/Media/a/40.mp4", media_type |-> "Video",
      file_hash |-> "h3", mtime |-> 2 ] }

\* datetime.now(), later than every timestamp of the rows and files above
Now == 3

\* the locals of allUserPhotos when no run is under way
NoRun ==
  [ pc |-> "idle", data_list |-> <<>>, seen_files |-> {}, seen_hashes |-> {},
    photo_count |-> 0, handled |-> 0 ]

\* `seen_hashes = set()` at the start of a run; earlier is what earlier
\* runs recorded
seen_hashes_kept(earlier) == earlier

seen_hashes_at_start(earlier) == {}

\* the locals of allUserPhotos before the first source is processed
run_start(earlier) ==
  [ pc |-> "photos_sqlite", data_list |-> <<>>, seen_files |-> {},
    seen_hashes |-> seen_hashes_at_start(earlier), photo_count |-> 0,
    handled |-> 0 ]

\* the insertion without its guard
add_photo_hash_unguarded(file_hash, seen) == seen \cup {file_hash}

\* `if file_hash: seen_hashes.add(file_hash)` of the three candidate loops
add_photo_hash(file_hash, seen) ==
  IF file_hash # "" THEN seen \cup {file_hash} ELSE seen

\* `for photo_path in photo_file_paths` of process_photos_sqlite from the
\* k-th existing candidate on: `continue` under a seen hash goes on with
\* the next candidate and leaves file_hash as it is
RECURSIVE photo_paths_from(_, _, _, _)
photo_paths_from(found, k, file_hash, seen) ==
  IF k > Len(found)
  THEN [ file_hash |-> file_hash, seen_hashes |-> seen, path_verified |-> FALSE ]
  ELSE IF found[k] # "" /\ found[k] \in seen
       THEN photo_paths_from(found, k + 1, found[k], seen)
       ELSE [ file_hash |-> found[k],
              seen_hashes |-> add_photo_hash(found[k], seen),
              path_verified |-> TRUE ]

\* `for candidate_path in whatsapp_path_candidates` of process_whatsapp_media
RECURSIVE whatsapp_candidates_from(_, _, _, _)
whatsapp_candidates_from(found, k, file_hash, seen) ==
  IF k > Len(found)
  THEN [ file_hash |-> file_hash, seen_hashes |-> seen, path_verified |-> FALSE ]
  ELSE IF found[k] \in seen
       THEN whatsapp_candidates_from(found, k + 1, found[k], seen)
       ELSE [ file_hash |-> found[k],
              seen_hashes |-> add_photo_hash(found[k], seen),
              path_verified |-> TRUE ]

\* the run after a row was appended for key with what the candidate loop
\* left
appended(run, key, timestamp, source_app, r) ==
  [ run EXCEPT
      !.seen_hashes = r.seen_hashes,
      !.seen_files = @ \cup {key},
      !.data_list = Append(@, [ timestamp |-> timestamp,
                                source_app |-> source_app,
                                file_path |-> key,
                                file_hash |-> r.file_hash,
                                path_verified |-> r.path_verified ]),
      !.photo_count = @ + 1 ]

\* one pass of `for record_tuple in records` of process_photos_sqlite
photos_sqlite_record(run, record) ==
  IF record.key \in run.seen_files THEN run
  ELSE appended(run, record.key, record.timestamp, "Photos",
                photo_paths_from(record.found, 1, "", run.seen_hashes))

\* one pass of `for record_tuple in records` of process_whatsapp_media
whatsapp_record(run, record) ==
  IF record.media_path = "" \/ record.media_path \in run.seen_files THEN run
  ELSE IF record.media_type \notin {"Photo", "Video"} THEN run
  ELSE appended(run, record.media_path,
                IF record.message_date # 0 THEN record.message_date ELSE Now,
                "WhatsApp",
                whatsapp_candidates_from(record.found, 1, "", run.seen_hashes))

\* one pass of `for media_file in media_files` of
\* process_whatsapp_filesystem_fallback
whatsapp_file(run, media_file) ==
  IF media_file.file_path \in run.seen_files THEN run
  ELSE IF media_file.media_type \notin {"Photo", "Video"} THEN run
  ELSE IF media_file.file_hash \in run.seen_hashes THEN run
  ELSE appended(run, media_file.file_path, media_file.mtime, "WhatsApp",
                [ file_hash |-> media_file.file_hash,
                  seen_hashes |->
                    add_photo_hash(media_file.file_hash, run.seen_hashes),
                  path_verified |-> TRUE ])

\* data_list.sort(key=lambda x: x[0] if x[0] else '', reverse=True): by
\* timestamp, descending; rows of equal timestamp keep their order
RECURSIVE insert_by_timestamp(_, _)
insert_by_timestamp(sorted, row) ==
  IF sorted = <<>> THEN <<row>>
  ELSE IF sorted[1].timestamp >= row.timestamp
       THEN <<sorted[1]>> \o insert_by_timestamp(Tail(sorted), row)
       ELSE <<row>> \o sorted

RECURSIVE sort_by_timestamp(_)
sort_by_timestamp(rows) ==
  IF rows = <<>> THEN <<>>
  ELSE insert_by_timestamp(sort_by_timestamp(SubSeq(rows, 1, Len(rows) - 1)),
                           rows[Len(rows)])

\* `if data_list: AggregationEngine.report_artifact_processed(...)`
photos_reported(self, rows) ==
  IF rows # <<>>
  THEN report_artifact_processed(self, "All User Photos", Len(rows))
  ELSE self

(***************************************************************************)
(* Inputs of the path classifier on its own: a path is zero, one or two    *)
(* directories of the extraction followed by a file name, so that a path   *)
(* can satisfy the patterns of several categories.                         *)
(***************************************************************************)
ClassifyDirs ==
  { <<>>,
    <<"/", "mobile", "/", "Library", "/", "Sounds">>,
    <<"/", "mobile", "/", "Containers", "/", "Data", "/", "Application", "/",
      "A1", "/", "Documents">>,
    <<"/", "Documents", "/", "Recordings">>,
    <<"/", "mobile", "/", "Library", "/", "Voicemail">>,
    <<"/", "Message", "/", "Media">>,
    <<"/", "mobile", "/", "Library", "/", "VoiceTrigger", "/", "SAT">>,
    <<"/", "System", "/", "Library", "/", "Audio">>,
    <<"/", "containers", "/", "Bundle", "/", "Application", "/", "B1", "/",
      "Foo", ".app">>,
    <<"/", "Foo", ".bundle">>,
    <<"/", "mobile", "/", "Media">> }

ClassifyNames ==
  { <<"/", "ringtone", "_", "custom", ".m4a">>,
    <<"/", "alert", ".caf">>,
    <<"/", "40", ".M4A">>,
    <<"/", "song", ".ogg">> }

\* the path with every separator written "/", and with every one or only
\* the last one written as a backslash
Slashed(p) == [i \in DOMAIN p |-> IF p[i] = "\\" THEN "/" ELSE p[i]]
Backslashed(p) == [i \in DOMAIN p |-> IF p[i] = "/" THEN "\\" ELSE p[i]]
MixedSeparators(p) ==
  [i \in DOMAIN p |-> IF i = LastSep(p) THEN "\\" ELSE p[i]]

ClassifySlashPaths ==
  { d1 \o d2 \o n : d1 \in ClassifyDirs, d2 \in ClassifyDirs, n \in ClassifyNames }

ClassifyPaths ==
  ClassifySlashPaths
    \cup {Backslashed(p) : p \in ClassifySlashPaths}
    \cup {MixedSeparators(p) : p \in ClassifySlashPaths}

\* the hosts the program runs on, by os.name
Platforms == {"posix", "nt"}

\* what fnmatch.fnmatch (through os.path.normcase) and os.path.basename
\* take for a separator: on Windows "/" and the backslash alike, so that a
\* call there does what a call with the path written with "/" does on a
\* POSIX host; on a POSIX host "/" only
normsep(platform, file_path) ==
  IF platform = "nt" THEN Slashed(file_path) ELSE file_path

ClassifySizes == {500, 120000}

VARIABLES
  files_found,      \* the list the search layer hands to allUserAudio
  pc,               \* "loop": in the for loop; "done": returned;
                    \* "raised": left by an exception; "idle": no run
  idx,              \* position of the for loop in audio_files
  data_list,        \* the rows appended so far
  origin,           \* for each row of data_list, the position in
                    \* audio_files of the file it was appended for
  seen_hashes,      \* the hashes recorded so far
  processed_files,  \* the counter of appended rows
  last,             \* the local variables of the latest pass of the loop
  returned,         \* the data_list the function returned (<<>>: None)
  cl_call,          \* a call of classify_audio_file: its arguments and,
                    \* once it returned, its result
  engine,           \* the attributes of the AggregationEngine instance
  heap,             \* the _processing_errors lists created so far, by
                    \* address
  calls,            \* the calls that changed the engine so far
  snap,             \* what a caller got from get_dashboard_data and what
                    \* it did with it
  photos,           \* the locals of an allUserPhotos run and its position
  runs,             \* the aggregation runs started so far
  earlier           \* the content hashes the runs before the latest
                    \* recorded

audio_vars == <<files_found, pc, idx, data_list, origin, seen_hashes,
                processed_files, last, returned, cl_call>>
engine_vars == <<engine, heap, calls, snap>>
photo_vars == <<photos, runs, earlier>>
other_vars == <<engine_vars, photo_vars>>

vars == <<audio_vars, other_vars>>

audio_files == audio_files_of(files_found)

NoPass ==
  [ file |-> 0, outcome |-> "none", file_hash |-> "", path_class |-> NoClass,
    db_context |-> EmptyContext ]

NoCall == [state |-> "none", platform |-> "posix", file_path |-> <<>>,
           file_size |-> 0, result |-> NoClass]

\* the bounded lists over Files
FileLists == UNION {[1..n -> DOMAIN Files] : n \in 0..MaxFiles}

\* the engine after AggregationEngine() built and reset the instance
NoSnap == [ state |-> "none", at |-> 0, data |-> <<>>, given |-> <<>> ]

EngineInit ==
  /\ engine = construct(None, 1)
  /\ heap = << <<>> >>
  /\ calls = <<>>
  /\ snap = NoSnap

\* no allUserPhotos run
PhotosIdle ==
  /\ photos = NoRun
  /\ runs = 0
  /\ earlier = {}

\* the state at the head of the for loop of allUserAudio, for a files_found
\* of the given set of lists
InitOver(lists) ==
  /\ files_found \in lists
  /\ pc = "loop"
  /\ idx = 1
  /\ data_list = <<>>
  /\ origin = <<>>
  /\ seen_hashes = {}
  /\ processed_files = 0
  /\ last = NoPass
  /\ returned = <<>>
  /\ cl_call = NoCall
  /\ EngineInit
  /\ PhotosIdle

Init == InitOver(FileLists)

\* one pass of `for file_path in audio_files`
ProcessFile ==
  /\ pc = "loop"
  /\ idx <= Len(audio_files)
  /\ \E r \in {loop_body(audio_files[idx], files_found, seen_hashes)} :
       /\ seen_hashes' = r.seen_hashes
       /\ data_list' = data_list \o r.rows
       /\ origin' = IF r.rows = <<>> THEN origin ELSE Append(origin, idx)
       /\ processed_files' = processed_files + Len(r.rows)
       /\ last' = [ file |-> audio_files[idx], outcome |-> r.outcome,
                    file_hash |-> r.file_hash, path_class |-> r.path_class,
                    db_context |-> r.db_context ]
       /\ IF r.outcome = "raise"
          THEN pc' = "raised" /\ idx' = idx
          ELSE pc' = pc /\ idx' = idx + 1
  /\ UNCHANGED <<files_found, returned, cl_call>>
  /\ UNCHANGED other_vars

\* the end of the loop: the function returns data_list (None when empty)
Return ==
  /\ pc = "loop"
  /\ idx > Len(audio_files)
  /\ pc' = "done"
  /\ returned' = data_list
  /\ UNCHANGED <<files_found, idx, data_list, origin, seen_hashes,
                 processed_files, last, cl_call>>
  /\ UNCHANGED other_vars

Next == ProcessFile \/ Return

Spec == Init /\ [][Next]_vars

\* the files of the runs checked for completion: a recording, its copy, a
\* file that cannot be read, a missing file, a file whose modification time
\* cannot be formatted, and a matching, a corrupt and an all-matching database
BrokenFiles == {2, 3, 6, 9, 10, 11, 16, 17}
BrokenLists == UNION {[1..n -> BrokenFiles] : n \in 0..MaxFiles}

InitBroken == InitOver(BrokenLists)

\* the for loop runs to its end: every pass and the return are taken
FairSpec == InitBroken /\ [][Next]_vars /\ WF_vars(Next)

\* a call of classify_audio_file with a path and a size
InitClassify ==
  /\ files_found = <<>>
  /\ pc = "idle"
  /\ idx = 1
  /\ data_list = <<>>
  /\ origin = <<>>
  /\ seen_hashes = {}
  /\ processed_files = 0
  /\ last = NoPass
  /\ returned = <<>>
  /\ \E p \in ClassifyPaths, n \in ClassifySizes, os \in Platforms :
       cl_call = [ state |-> "called", platform |-> os, file_path |-> p,
                   file_size |-> n, result |-> NoClass ]
  /\ EngineInit
  /\ PhotosIdle

Classify ==
  /\ cl_call.state = "called"
  /\ cl_call' = [ cl_call EXCEPT
                    !.state = "returned",
                    !.result = classify_audio_file(
                                 normsep(cl_call.platform, cl_call.file_path),
                                 cl_call.file_size) ]
  /\ UNCHANGED <<files_found, pc, idx, data_list, origin, seen_hashes,
                 processed_files, last, returned>>
  /\ UNCHANGED other_vars

NextClassify == Classify

SpecClassify == InitClassify /\ [][NextClassify]_vars

(***************************************************************************)
(* The AggregationEngine under calls of its class methods, followed by a   *)
(* consumer that reads the dashboard data and changes what it got.         *)
(***************************************************************************)
MessagingApps == {"WhatsApp", "Telegram"}
MessageCounts == {0, 1, 2}
SocialApps == {"Instagram"}
ActivityCounts == {1}
LocationSources == {"Maps"}
LocationCounts == {2}
ArtifactNames == {"All User Photos", "All User Audio"}
RecordCounts == {1, 2}
DeviceKeys == {"ios_version"}
DeviceValues == {"16.1", "17.0"}

\* no allUserAudio run and no call of classify_audio_file
AudioIdle ==
  /\ files_found = <<>>
  /\ pc = "idle"
  /\ idx = 1
  /\ data_list = <<>>
  /\ origin = <<>>
  /\ seen_hashes = {}
  /\ processed_files = 0
  /\ last = NoPass
  /\ returned = <<>>
  /\ cl_call = NoCall

InitEngine == AudioIdle /\ EngineInit /\ PhotosIdle

\* the list at self._processing_errors
errors == heap[engine._processing_errors]

CanCall == Len(calls) < MaxCalls /\ snap.state = "none"

Called(op, key, count) ==
  calls' = Append(calls, [op |-> op, key |-> key, count |-> count])

ReportMessagingCount ==
  /\ CanCall
  /\ \E app_name \in MessagingApps, message_count \in MessageCounts :
       /\ engine' = report_messaging_count(engine, app_name, message_count)
       /\ Called("report_messaging_count", app_name, message_count)
  /\ UNCHANGED <<heap, snap>>
  /\ UNCHANGED <<audio_vars, photo_vars>>

ReportSocialMediaCount ==
  /\ CanCall
  /\ \E app_name \in SocialApps, activity_count \in ActivityCounts :
       /\ engine' = report_social_media_count(engine, app_name, activity_count)
       /\ Called("report_social_media_count", app_name, activity_count)
  /\ UNCHANGED <<heap, snap>>
  /\ UNCHANGED <<audio_vars, photo_vars>>

ReportLocationData ==
  /\ CanCall
  /\ \E source \in LocationSources, location_count \in LocationCounts :
       /\ engine' = report_location_data(engine, source, location_count)
       /\ Called("report_location_data", source, location_count)
  /\ UNCHANGED <<heap, snap>>
  /\ UNCHANGED <<audio_vars, photo_vars>>

ReportArtifactProcessed ==
  /\ CanCall
  /\ \E artifact_name \in ArtifactNames, record_count \in RecordCounts :
       /\ engine' = report_artifact_processed(engine, artifact_name, record_count)
       /\ Called("report_artifact_processed", artifact_name, record_count)
  /\ UNCHANGED <<heap, snap>>
  /\ UNCHANGED <<audio_vars, photo_vars>>

ReportDeviceInfo ==
  /\ CanCall
  /\ \E key \in DeviceKeys, value \in DeviceValues :
       /\ engine' = report_device_info(engine, key, value)
       /\ Called("report_device_info", key, 0)
  /\ UNCHANGED <<heap, snap>>
  /\ UNCHANGED <<audio_vars, photo_vars>>

ReportProcessingError ==
  /\ CanCall
  /\ heap' = [ heap EXCEPT ![engine._processing_errors] =
                 report_processing_error(@, "All User Audio", "read error") ]
  /\ Called("report_processing_error", "All User Audio", 0)
  /\ UNCHANGED <<engine, snap>>
  /\ UNCHANGED <<audio_vars, photo_vars>>

\* AggregationEngine().reset(): every attribute is assigned a new, empty
\* object
Reset ==
  /\ CanCall
  /\ heap' = Append(heap, <<>>)
  /\ engine' = reset(engine, Len(heap) + 1)
  /\ Called("reset", "", 0)
  /\ UNCHANGED snap
  /\ UNCHANGED <<audio_vars, photo_vars>>

\* AggregationEngine() by any caller; a construction that resets creates a
\* new list of errors
Construct ==
  /\ CanCall
  /\ engine' = construct(engine, Len(heap) + 1)
  /\ heap' = IF engine'._processing_errors = Len(heap) + 1
             THEN Append(heap, <<>>) ELSE heap
  /\ Called("AggregationEngine", "", 0)
  /\ UNCHANGED snap
  /\ UNCHANGED <<audio_vars, photo_vars>>

\* clear_all_data calls reset on the instance
ClearAllData ==
  /\ CanCall
  /\ heap' = Append(heap, <<>>)
  /\ engine' = reset(engine, Len(heap) + 1)
  /\ Called("clear_all_data", "", 0)
  /\ UNCHANGED snap
  /\ UNCHANGED <<audio_vars, photo_vars>>

\* the returned structure with the list of errors in place of its address
Contents(data, objects) == [ data EXCEPT !.errors = objects[@] ]

\* a consumer calls get_dashboard_data and keeps what it returned
GetDashboardData ==
  /\ snap.state = "none"
  /\ \E data \in {get_dashboard_data(engine, Len(errors))} :
       snap' = [ state |-> "taken", at |-> Len(calls), data |-> data,
                 given |-> Contents(data, heap) ]
  /\ UNCHANGED <<engine, heap, calls>>
  /\ UNCHANGED <<audio_vars, photo_vars>>

\* the consumer appends to the list data["errors"]
ChangeErrors ==
  /\ snap.state = "taken"
  /\ heap' = [ heap EXCEPT ![snap.data.errors] =
                 Append(@, [artifact |-> "consumer", error |-> "added"]) ]
  /\ snap' = [ snap EXCEPT !.state = "changed" ]
  /\ UNCHANGED <<engine, calls>>
  /\ UNCHANGED <<audio_vars, photo_vars>>

\* the consumer assigns data["device_info"]["ios_version"]
ChangeDeviceInfo ==
  /\ snap.state = "taken"
  /\ snap' = [ snap EXCEPT !.state = "changed",
                 !.data.device_info = DictSet(@, "ios_version", "changed") ]
  /\ UNCHANGED <<engine, heap, calls>>
  /\ UNCHANGED <<audio_vars, photo_vars>>

\* the consumer assigns data["artifact_counts"]["All User Audio"]
ChangeArtifactCounts ==
  /\ snap.state = "taken"
  /\ snap' = [ snap EXCEPT !.state = "changed",
                 !.data.artifact_counts = DictSet(@, "All User Audio", 99) ]
  /\ UNCHANGED <<engine, heap, calls>>
  /\ UNCHANGED <<audio_vars, photo_vars>>

\* the consumer appends to the list data["messaging_apps"]["apps"]
ChangeApps ==
  /\ snap.state = "taken"
  /\ snap' = [ snap EXCEPT !.state = "changed",
                 !.data.messaging_apps.apps = Append(@, <<"consumer", 99>>) ]
  /\ UNCHANGED <<engine, heap, calls>>
  /\ UNCHANGED <<audio_vars, photo_vars>>

NextEngine ==
  \/ ReportMessagingCount
  \/ ReportSocialMediaCount
  \/ ReportLocationData
  \/ ReportArtifactProcessed
  \/ ReportDeviceInfo
  \/ ReportProcessingError
  \/ Reset
  \/ ClearAllData
  \/ Construct
  \/ GetDashboardData
  \/ ChangeErrors
  \/ ChangeDeviceInfo
  \/ ChangeArtifactCounts
  \/ ChangeApps

SpecEngine == InitEngine /\ [][NextEngine]_vars

(***************************************************************************)
(* One allUserPhotos run: the rows of the Photos.sqlite databases, then    *)
(* the rows and files of the WhatsApp databases, then the sort, the report *)
(* to the AggregationEngine and the return.                                *)
(***************************************************************************)
InitPhotos ==
  /\ AudioIdle
  /\ EngineInit
  /\ photos = run_start({})
  /\ runs = 1
  /\ earlier = {}

PhotosSqliteRecord ==
  /\ photos.pc = "photos_sqlite"
  /\ photos.handled < MaxRecords
  /\ \E record \in PhotoRecords :
       photos' = [ photos_sqlite_record(photos, record) EXCEPT !.handled = @ + 1 ]
  /\ UNCHANGED <<runs, earlier>>
  /\ UNCHANGED <<audio_vars, engine_vars>>

\* process_photos_sqlite returned (or files_found has no Photos.sqlite):
\* the WhatsApp databases are next
NextSource ==
  /\ photos.pc = "photos_sqlite"
  /\ photos' = [ photos EXCEPT !.pc = "whatsapp" ]
  /\ UNCHANGED <<runs, earlier>>
  /\ UNCHANGED <<audio_vars, engine_vars>>

\* a row of a database that has the ZWAMEDIAITEM table and its path column
WhatsAppRecord ==
  /\ photos.pc = "whatsapp"
  /\ photos.handled < MaxRecords
  /\ \E record \in WhatsAppRecords :
       photos' = [ whatsapp_record(photos, record) EXCEPT !.handled = @ + 1 ]
  /\ UNCHANGED <<runs, earlier>>
  /\ UNCHANGED <<audio_vars, engine_vars>>

\* a file of the fallback, taken for a database without the table or the
\* column and after an exception
WhatsAppFile ==
  /\ photos.pc = "whatsapp"
  /\ photos.handled < MaxRecords
  /\ \E media_file \in WhatsAppFiles :
       photos' = [ whatsapp_file(photos, media_file) EXCEPT !.handled = @ + 1 ]
  /\ UNCHANGED <<runs, earlier>>
  /\ UNCHANGED <<audio_vars, engine_vars>>

\* the end of allUserPhotos: sort, report, return
PhotosReturn ==
  /\ photos.pc = "whatsapp"
  /\ photos' = [ photos EXCEPT !.pc = "done",
                               !.data_list = sort_by_timestamp(@) ]
  /\ engine' = photos_reported(engine, photos.data_list)
  /\ calls' = IF photos.data_list # <<>>
              THEN Append(calls, [ op |-> "report_artifact_processed",
                                   key |-> "All User Photos",
                                   count |-> Len(photos.data_list) ])
              ELSE calls
  /\ UNCHANGED <<heap, snap, runs, earlier>>
  /\ UNCHANGED audio_vars

NextPhotos ==
  \/ PhotosSqliteRecord
  \/ NextSource
  \/ WhatsAppRecord
  \/ WhatsAppFile
  \/ PhotosReturn

SpecPhotos == InitPhotos /\ [][NextPhotos]_vars

(***************************************************************************)
(* Aggregation runs one after the other in one process: allUserAudio and   *)
(* allUserPhotos, in any order.                                            *)
(***************************************************************************)
\* the files handed to the allUserAudio runs: rec1.caf, its copy memo1.m4a,
\* the voice message 40.m4a and its unreadable copy 40.M4A
RunFiles == {2, 3, 4, 6}
RunLists == UNION {[1..n -> RunFiles] : n \in 1..2}

InitRuns == AudioIdle /\ EngineInit /\ PhotosIdle

\* no run is under way and another one may start
CanStart ==
  /\ runs < MaxRuns
  /\ pc \in {"idle", "done", "raised"}
  /\ photos.pc \in {"idle", "done"}

\* the hashes the runs so far recorded
Recorded == earlier \cup seen_hashes \cup photos.seen_hashes

\* allUserAudio is called: its locals are initialised
StartAudio ==
  /\ CanStart
  /\ files_found' \in RunLists
  /\ pc' = "loop"
  /\ idx' = 1
  /\ data_list' = <<>>
  /\ origin' = <<>>
  /\ seen_hashes' = seen_hashes_at_start(Recorded)
  /\ processed_files' = 0
  /\ last' = NoPass
  /\ returned' = <<>>
  /\ runs' = runs + 1
  /\ earlier' = Recorded
  /\ UNCHANGED <<cl_call, photos>>
  /\ UNCHANGED engine_vars

\* allUserPhotos is called: its locals are initialised
StartPhotos ==
  /\ CanStart
  /\ photos' = run_start(Recorded)
  /\ runs' = runs + 1
  /\ earlier' = Recorded
  /\ UNCHANGED <<audio_vars, engine_vars>>

NextRuns ==
  \/ StartAudio
  \/ ProcessFile
  \/ Return
  \/ StartPhotos
  \/ PhotosSqliteRecord
  \/ NextSource
  \/ WhatsAppRecord
  \/ WhatsAppFile
  \/ PhotosReturn

SpecRuns == InitRuns /\ [][NextRuns]_vars

(***************************************************************************)
(* Properties.                                                             *)
(***************************************************************************)
\* the database pool of the run and the passes of the loop made so far
pool == db_files_of(files_found)
Passed == 1..(idx - 1)
Emitted(i) == \E k \in DOMAIN origin : origin[k] = i
LastRow == data_list[Len(data_list)]

\* the file is on disk and its modification time can be formatted
WellFormed(f) == Files[f].exists /\ format_mtime(Files[f].mtime).kind = "ret"

\* the pass for the file reaches the hash and the hash is not empty
Hashable(f) == WellFormed(f) /\ calculate_file_hash(f) # ""

\* C1 as stated: of two candidates with byte-identical content the later
\* one never has a record.
C1_AnyIdenticalContent ==
  \A i \in Passed : \A j \in Passed :
    (/\ i < j
     /\ Files[audio_files[i]].exists /\ Files[audio_files[j]].exists
     /\ Files[audio_files[i]].content = Files[audio_files[j]].content)
    => ~Emitted(j)

\* C1 (amended): among the candidates whose metadata can be read and whose
\* content hash can be computed, a candidate has a record exactly when no
\* earlier such candidate has the same content; no candidate has two records.
C1_FirstHashedContentOnly ==
  /\ \A j \in Passed :
       Hashable(audio_files[j]) =>
         (Emitted(j) <=>
            ~\E i \in 1..(j - 1) :
               /\ Hashable(audio_files[i])
               /\ Files[audio_files[i]].content = Files[audio_files[j]].content)
  /\ \A k \in DOMAIN origin : \A m \in DOMAIN origin :
       origin[k] = origin[m] => k = m

C1_Witness ==
  /\ pc = "done"
  /\ \E i \in Passed : \E j \in Passed :
       /\ i < j
       /\ audio_files[i] # audio_files[j]
       /\ Hashable(audio_files[i]) /\ Hashable(audio_files[j])
       /\ Files[audio_files[i]].content = Files[audio_files[j]].content
       /\ Emitted(i) /\ ~Emitted(j)
       /\ last.outcome = "duplicate"

\* the databases of the pool the branch of signature id probes with a
\* lookup that returns a row for the audio file a
Matching(id, a) ==
  { k \in DOMAIN pool : /\ BranchTable[pool[k]].id = id
                        /\ ProbeTable[pool[k]][a].kind = "ret" }
AllMatching(a) == { k \in DOMAIN pool : ProbeTable[pool[k]][a].kind = "ret" }
Least(S) == CHOOSE k \in S : \A m \in S : k <= m

\* C2 as stated: with a matching Voice Memos database and a matching
\* WhatsApp database in the pool (and no other matching database) the
\* context is the Voice Memos one, in either order of the two.
C2_SignatureOrderWins ==
  (/\ last.outcome = "emitted"
   /\ Matching("VOICE_MEMOS", last.file) # {}
   /\ Matching("WHATSAPP", last.file) # {}
   /\ AllMatching(last.file)
        = Matching("VOICE_MEMOS", last.file) \cup Matching("WHATSAPP", last.file))
  => In(<<"Voice Memos">>, last.db_context["database_reference"])

\* C2 (amended): with a matching Voice Memos database and a matching
\* WhatsApp database in the pool the context is that of the database that
\* comes first in the pool among those whose lookup returns a row.
C2_PoolOrderWins ==
  (/\ last.outcome = "emitted"
   /\ Matching("VOICE_MEMOS", last.file) # {}
   /\ Matching("WHATSAPP", last.file) # {})
  => LET first == pool[Least(AllMatching(last.file))] IN
       /\ last.db_context["database_reference"]
            = ProbeTable[first][last.file].val["database_reference"]
       /\ last.db_context["classification_boost"] = BranchTable[first].boost
       /\ LastRow.database_reference
            = ProbeTable[first][last.file].val["database_reference"]

C2_Witness ==
  /\ last.outcome = "emitted"
  /\ Matching("VOICE_MEMOS", last.file) # {}
  /\ Matching("WHATSAPP", last.file) # {}
  /\ Least(Matching("WHATSAPP", last.file))
       < Least(Matching("VOICE_MEMOS", last.file))
  /\ In(<<"WhatsApp">>, LastRow.database_reference)

\* the categories, by position in the rule table, with a pattern the path
\* matches
MatchSet(file_path) ==
  { k \in DOMAIN CategoryOrder : MatchesCategory(file_path, CategoryOrder[k]) }

\* C3: for a path that matches patterns of two or more categories
\* classify_audio_file returns the name, tier and score of the one declared
\* first in AUDIO_CATEGORIES.
C3_FirstDeclaredWins ==
  (cl_call.state = "returned" /\ Cardinality(MatchSet(cl_call.file_path)) >= 2)
  => LET first == AUDIO_CATEGORIES[CategoryOrder[Least(MatchSet(cl_call.file_path))]]
     IN /\ cl_call.result.audio_type = first.name
        /\ cl_call.result.forensic_relevance = first.forensic_relevance
        /\ cl_call.result.relevance_score = first.score

C3_Witness ==
  /\ cl_call.state = "returned"
  /\ \E k \in MatchSet(cl_call.file_path) :
       /\ k > Least(MatchSet(cl_call.file_path))
       /\ AUDIO_CATEGORIES[CategoryOrder[k]].score # cl_call.result.relevance_score
  /\ cl_call.result.audio_type = "Communication Audio"

\* the substring heuristic of the custom/default indicator
PathHeuristic(file_path) ==
  IF In(<<"custom">>, Lower(file_path)) \/ In(<<"user">>, Lower(file_path))
  THEN "Custom"
  ELSE IF In(<<"system">>, Lower(file_path)) \/ In(<<"default">>, Lower(file_path))
       THEN "Default"
       ELSE "Unknown"

\* C4: every User Content row has indicator Custom, every App Assets row
\* Default, and every other row the indicator of the path heuristic.
C4_FixedIndicators ==
  \A k \in DOMAIN data_list :
    data_list[k].custom_default =
      IF data_list[k].audio_type = "User Content" THEN "Custom"
      ELSE IF data_list[k].audio_type = "App Assets" THEN "Default"
      ELSE PathHeuristic(data_list[k].source_file)

\* C5: a candidate whose metadata can be read and whose hash is empty
\* yields a record in its pass, whatever was processed before.
C5_EmptyHashNeverSkipped ==
  (/\ last.outcome # "none"
   /\ WellFormed(last.file)
   /\ calculate_file_hash(last.file) = "")
  => /\ last.outcome = "emitted"
     /\ Emitted(idx - 1)
     /\ LastRow.source_file = str(last.file)
     /\ "" \notin seen_hashes

C5_Witness ==
  /\ last.outcome = "emitted"
  /\ last.file_hash = ""
  /\ \E k \in 1..(Len(origin) - 1) :
       calculate_file_hash(audio_files[origin[k]]) = ""

\* C6: analyze_database_context returns for every candidate and every pool,
\* a database that cannot be parsed, lacks the table, fails the query or
\* has no row included; when no lookup of the pool returns a row the
\* context has an empty reference and no boost, and the pass of the run is
\* not aborted.
C6_CorrelatorNeverRaises ==
  /\ \A i \in DOMAIN audio_files :
       LET a == audio_files[i]
           c == analyze_database_context(files_found, a)
       IN /\ c.kind = "ret"
          /\ (\A k \in DOMAIN pool : ProbeTryTable[pool[k]][a].kind # "ret")
               => /\ c.val["database_reference"] = <<>>
                  /\ c.val["classification_boost"] = "None"
  /\ (last.outcome # "none" /\ WellFormed(last.file))
       => last.outcome \in {"emitted", "duplicate"}

C6_Witness ==
  /\ last.outcome = "emitted"
  /\ \E k \in DOMAIN pool : ProbeTryTable[pool[k]][last.file].kind = "raise"
  /\ \E k \in DOMAIN pool : ProbeTryTable[pool[k]][last.file].kind = "none"
  /\ LastRow.database_reference = <<>>
  /\ LastRow.classification_method = "Path-based"

\* the candidate at position i is not a duplicate: its hash is empty, or no
\* earlier candidate that reached the hash has the same content
NonDuplicate(i) ==
  \/ calculate_file_hash(audio_files[i]) = ""
  \/ ~\E j \in 1..(i - 1) :
        /\ Hashable(audio_files[j])
        /\ Files[audio_files[j]].content = Files[audio_files[i]].content

\* C7: every run reaches the end of the list, and the output then holds a
\* record for every well-formed candidate that is not a duplicate.
C7_RunCompletes ==
  <>(/\ pc = "done"
     /\ idx = Len(audio_files) + 1
     /\ \A i \in DOMAIN audio_files :
          (WellFormed(audio_files[i]) /\ NonDuplicate(i)) => Emitted(i))

C7_Witness ==
  /\ pc = "done"
  /\ files_found \in BrokenLists
  /\ \E i \in DOMAIN audio_files : ~Files[audio_files[i]].exists
  /\ \E i \in DOMAIN audio_files :
       Files[audio_files[i]].exists /\ ~WellFormed(audio_files[i])
  /\ last.outcome = "emitted"

\* C8: the classification method of a row is Database-enhanced exactly when
\* some database of the pool returned a context for the candidate, and
\* Path-based otherwise, in particular with an empty pool.
C8_MethodIffContext ==
  last.outcome = "emitted"
  => /\ LastRow.classification_method =
          IF AllMatching(last.file) # {} THEN "Database-enhanced"
          ELSE "Path-based"
     /\ (pool = <<>> => LastRow.classification_method = "Path-based")

C8_Witness ==
  /\ last.outcome = "emitted"
  /\ AllMatching(last.file) # {}
  /\ last.db_context["database_timestamp"] = <<>>
  /\ LastRow.classification_method = "Database-enhanced"

\* C9: with a boost in the context the row has the name, tier and score of
\* the boosted category; without one it has those classify_audio_file
\* returned for the path.
C9_BoostOverwritesCategory ==
  last.outcome = "emitted"
  => LET boost == last.db_context["classification_boost"]
         expected == IF boost # "None"
                     THEN [ audio_type |-> AUDIO_CATEGORIES[boost].name,
                            forensic_relevance |->
                              AUDIO_CATEGORIES[boost].forensic_relevance,
                            relevance_score |-> AUDIO_CATEGORIES[boost].score ]
                     ELSE [ audio_type |-> ClassTable[last.file].audio_type,
                            forensic_relevance |->
                              ClassTable[last.file].forensic_relevance,
                            relevance_score |->
                              ClassTable[last.file].relevance_score ]
     IN /\ LastRow.audio_type = expected.audio_type
        /\ LastRow.forensic_relevance = expected.forensic_relevance
        /\ LastRow.relevance_score = expected.relevance_score

C9_Witness ==
  /\ last.outcome = "emitted"
  /\ last.db_context["classification_boost"] # "None"
  /\ LastRow.audio_type # ClassTable[last.file].audio_type
  /\ LastRow.relevance_score # ClassTable[last.file].relevance_score

\* the database is a ChatStorage.sqlite whose ZWAMEDIAITEM table has a row
\* of media type 3 whose ZMEDIALOCALPATH contains the name of the file a
HoldsMediaItem(d, a) ==
  /\ In(<<"ChatStorage", ".sqlite">>, str(d))
  /\ ~Files[d].corrupt
  /\ "ZWAMEDIAITEM" \in DOMAIN Files[d].tables
  /\ \E k \in DOMAIN Files[d].tables["ZWAMEDIAITEM"].rows :
       LET row == Files[d].tables["ZWAMEDIAITEM"].rows[k] IN
         /\ row.ZMEDIATYPE = IntV(3)
         /\ Like(row.ZMEDIALOCALPATH, basename(str(a)))

\* C10: 40.m4a in a WhatsApp media folder, with such a ChatStorage.sqlite as
\* the pool, gets a row of category Communication Audio, subtype Voice
\* Message and method Database-enhanced.
C10_WhatsAppMediaItemEnhances ==
  (/\ last.outcome = "emitted"
   /\ basename(str(last.file)) = <<"40", ".m4a">>
   /\ In(<<"Message", "/", "Media">>, str(last.file))
   /\ Len(pool) = 1
   /\ HoldsMediaItem(pool[1], last.file))
  => /\ LastRow.audio_type = "Communication Audio"
     /\ LastRow.functional_category = "Voice Message"
     /\ LastRow.classification_method = "Database-enhanced"

(***************************************************************************)
(* Properties of the AggregationEngine.                                    *)
(***************************************************************************)
\* the calls made after the last reset() or clear_all_data()
RECURSIVE SinceReset(_)
SinceReset(cs) ==
  IF cs = <<>> THEN <<>>
  ELSE IF cs[Len(cs)].op \in {"reset", "clear_all_data"} THEN <<>>
  ELSE Append(SinceReset(SubSeq(cs, 1, Len(cs) - 1)), cs[Len(cs)])

\* the reports of one method for one key since the last reset
Reports(op, key) ==
  SelectSeq(SinceReset(calls), LAMBDA c : c.op = op /\ c.key = key)

RECURSIVE SumCounts(_)
SumCounts(cs) == IF cs = <<>> THEN 0 ELSE cs[1].count + SumCounts(Tail(cs))

\* the counter holds, under every key, the sum of the counts reported for it
Accumulated(counter, op, keys) ==
  /\ \A i \in DOMAIN engine[counter] : engine[counter][i][1] \in keys
  /\ \A k \in keys : DictGet(engine[counter], k) = SumCounts(Reports(op, k))

\* the counter holds, under every key, the count of the last report for it
Latest(counter, op, keys) ==
  /\ \A i \in DOMAIN engine[counter] : engine[counter][i][1] \in keys
  /\ \A k \in keys :
       LET reports == Reports(op, k) IN
         IF reports = <<>> THEN ~DictHas(engine[counter], k)
         ELSE DictGet(engine[counter], k) = reports[Len(reports)].count

AppCountersAccumulated ==
  /\ Accumulated("_messaging_apps", "report_messaging_count", MessagingApps)
  /\ Accumulated("_social_media_apps", "report_social_media_count", SocialApps)
  /\ Accumulated("_location_sources", "report_location_data", LocationSources)

\* C11 as stated: between two resets every counter, the artifact counts
\* included, holds the sum of the counts reported under its key.
C11_EveryCounterAccumulates ==
  /\ AppCountersAccumulated
  /\ Accumulated("_artifact_counts", "report_artifact_processed", ArtifactNames)

\* C11 amended: between two resets the counters keyed by app name and by
\* source label hold the sum of the counts reported under the key; the
\* counter keyed by artifact name holds the count of the last report.
C11_AppCountersAccumulateArtifactCountIsLatest ==
  /\ AppCountersAccumulated
  /\ Latest("_artifact_counts", "report_artifact_processed", ArtifactNames)

C11_Witness ==
  \E k \in MessagingApps :
    LET reports == Reports("report_messaging_count", k) IN
      /\ Len(reports) >= 2
      /\ \A i \in DOMAIN reports : reports[i].count > 0
      /\ DictGet(engine._messaging_apps, k) = SumCounts(reports)
      /\ DictGet(engine._messaging_apps, k) > reports[Len(reports)].count

LastCall == calls[Len(calls)]

\* C19: right after reset() or clear_all_data() every counter, the device
\* info, the timeline events and the error list are empty, has_data() is
\* False and every total of get_dashboard_data() is 0.
C19_ResetClearsEverything ==
  (/\ calls # <<>>
   /\ LastCall.op \in {"reset", "clear_all_data"}
   /\ snap.state # "changed")
  => /\ engine._messaging_apps = <<>>
     /\ engine._social_media_apps = <<>>
     /\ engine._location_sources = <<>>
     /\ engine._device_info = <<>>
     /\ engine._timeline_events = <<>>
     /\ engine._artifact_counts = <<>>
     /\ errors = <<>>
     /\ ~has_data(engine)
     /\ LET data == get_dashboard_data(engine, Len(errors)) IN
          /\ data.summary.total_messages = 0
          /\ data.summary.total_social_activities = 0
          /\ data.summary.total_location_points = 0
          /\ data.summary.total_artifacts_processed = 0
          /\ data.summary.processing_errors = 0
          /\ data.messaging_apps.total = 0
          /\ data.social_media_apps.total = 0
          /\ data.location_sources.total = 0

C19_Witness ==
  /\ Len(calls) = 3
  /\ calls[1].op = "report_messaging_count"
  /\ calls[1].count > 0
  /\ calls[2].op = "report_processing_error"
  /\ calls[3].op \in {"reset", "clear_all_data"}
  /\ ~has_data(engine)
  /\ errors = <<>>
  /\ heap[1] # <<>>

\* C20: after the consumer has changed any part of what get_dashboard_data
\* returned, a later get_dashboard_data returns the data the first call
\* returned.
C20_ReturnedDataIsASnapshot ==
  snap.state = "changed"
  => Contents(get_dashboard_data(engine, Len(errors)), heap) = snap.given

(***************************************************************************)
(* Properties of the database context and of the row made from it.         *)
(***************************************************************************)
\* the fields of the context the branch sets, not the lookup
BranchFields == {"classification_boost", "confidence_score"}

\* C13: analyze_database_context returns at the first database of the pool
\* whose lookup returns a row: the loop reaches no database after it, the
\* reference, timestamp and participant of the context are those the
\* lookup in that database returned, and boost and confidence are those of
\* the branch that database takes.
C13_ReturnsAtFirstMatchingDatabase ==
  (last.outcome = "emitted" /\ AllMatching(last.file) # {})
  => LET first == Least(AllMatching(last.file))
         found == ProbeTable[pool[first]][last.file].val
     IN /\ probed_from(pool, last.file, 1) = SubSeq(pool, 1, first)
        /\ DOMAIN found \subseteq DOMAIN last.db_context
        /\ \A f \in DOMAIN last.db_context \ BranchFields :
             last.db_context[f] = IF f \in DOMAIN found THEN found[f] ELSE <<>>
        /\ last.db_context["classification_boost"] = BranchTable[pool[first]].boost
        /\ last.db_context["confidence_score"]
             = BranchTable[pool[first]].confidence

C13_Witness ==
  /\ last.outcome = "emitted"
  /\ Cardinality(AllMatching(last.file)) >= 2
  /\ LET first == Least(AllMatching(last.file)) IN
       /\ first < Len(pool)
       /\ \E k \in AllMatching(last.file) :
            /\ k > first
            /\ ContextTable[pool[k]][last.file].val # last.db_context
       /\ Len(probed_from(pool, last.file, 1)) < Len(pool)
       /\ last.db_context = ContextTable[pool[first]][last.file].val

\* the timestamp the first matching database of the pool gives for the
\* audio file a: <<>> when no database matches or the lookup gives none
FoundTimestamp(a) ==
  IF AllMatching(a) = {} THEN <<>>
  ELSE LET found == ProbeTable[pool[Least(AllMatching(a))]][a].val IN
         IF "database_timestamp" \in DOMAIN found
         THEN found["database_timestamp"] ELSE <<>>

\* C14: the timestamp of a row is the database timestamp when a context
\* was found and its timestamp is not empty, and the formatted modification
\* time of the file otherwise.
C14_TimestampFromDatabaseElseMtime ==
  last.outcome = "emitted"
  => LastRow.timestamp
       = IF FoundTimestamp(last.file) # <<>> THEN FoundTimestamp(last.file)
         ELSE format_mtime(Files[last.file].mtime).val

C14_Witness ==
  /\ last.outcome = "emitted"
  /\ FoundTimestamp(last.file) # <<>>
  /\ LastRow.timestamp = FoundTimestamp(last.file)
  /\ LastRow.timestamp # format_mtime(Files[last.file].mtime).val
  /\ \E k \in DOMAIN data_list :
       /\ AllMatching(audio_files[origin[k]]) # {}
       /\ FoundTimestamp(audio_files[origin[k]]) = <<>>
       /\ data_list[k].timestamp
            = format_mtime(Files[audio_files[origin[k]]].mtime).val

\* the label each kind of database gives its reference, and the subtype
\* C15 names for it
SubtypeByLabel ==
  [ VOICE_MEMOS |-> [label |-> <<"Voice Memos">>, subtype |-> "Voice Recording"],
    SMS |-> [label |-> <<"sms">>, subtype |-> "Voice Message"],
    WHATSAPP |-> [label |-> <<"whatsapp">>, subtype |-> "Voice Message"],
    TELEGRAM |-> [label |-> <<"telegram">>, subtype |-> "Voice Message"],
    SIGNAL |-> [label |-> <<"signal">>, subtype |-> "Voice Message"],
    DISCORD |-> [label |-> <<"discord">>, subtype |-> "Voice Message"],
    VOICEMAIL |-> [label |-> <<"voicemail">>, subtype |-> "Voicemail"] ]

\* the reference carries the label, in any case of letters
HasLabel(label, ref) == In(label, ref) \/ In(label, Lower(ref))

\* C15: when a boost occurs the subtype of the row follows the label of
\* its database reference (Voice Memos: Voice Recording; voicemail:
\* Voicemail; WhatsApp, Telegram, Signal, Discord, SMS/iMessage: Voice
\* Message); when none occurs the row has the subtype classify_audio_file
\* gave for the path.
C15_SubtypeFollowsReferenceLabel ==
  last.outcome = "emitted"
  => IF AllMatching(last.file) = {}
     THEN LastRow.functional_category = ClassTable[last.file].functional_category
     ELSE LET by == SubtypeByLabel[BranchTable[pool[Least(AllMatching(last.file))]].id]
          IN /\ HasLabel(by.label, LastRow.database_reference)
             /\ LastRow.functional_category = by.subtype

C15_Witness ==
  /\ last.outcome = "emitted"
  /\ AllMatching(last.file) # {}
  /\ LastRow.functional_category = "Voice Message"
  /\ ClassTable[last.file].functional_category # "Voice Message"
  /\ \E k \in DOMAIN data_list :
       /\ AllMatching(audio_files[origin[k]]) = {}
       /\ data_list[k].functional_category
            = ClassTable[audio_files[origin[k]]].functional_category

\* C16: after an allUserAudio run that returned n > 0 rows the artifact
\* counts of the AggregationEngine hold n under "All User Audio".
C16_AudioRunReportsItsCount ==
  (pc = "done" /\ Len(returned) > 0)
  => /\ DictHas(engine._artifact_counts, "All User Audio")
     /\ DictGet(engine._artifact_counts, "All User Audio") = Len(returned)

\* C17: two paths that differ only in their separators ("/", backslash, or
\* a mix) get the same category: a call returns the category the path
\* written with "/" gets.
C17_SeparatorsDoNotMatter ==
  cl_call.state = "returned"
  => cl_call.result.audio_type
       = classify_audio_file(Slashed(cl_call.file_path),
                             cl_call.file_size).audio_type

(***************************************************************************)
(* Properties of allUserPhotos and of runs in sequence.                    *)
(***************************************************************************)
\* C12: in one allUserPhotos run no two rows carry the same non-empty
\* content hash.
C12_OneRecordPerHash ==
  \A i, j \in DOMAIN photos.data_list :
    (i # j /\ photos.data_list[i].file_hash # "")
    => photos.data_list[i].file_hash # photos.data_list[j].file_hash

\* the content hashes of the rows of the run under way
AudioRowHashes ==
  { calculate_file_hash(audio_files[origin[k]]) : k \in DOMAIN origin }
PhotoRowHashes ==
  { photos.data_list[k].file_hash : k \in DOMAIN photos.data_list }

\* C18: the set of seen hashes is empty when a run starts, and through the
\* run it holds hashes of rows of that run only: what an earlier run of
\* either aggregator recorded suppresses nothing.
C18_SeenHashesStartEmpty ==
  /\ (pc = "loop" /\ idx = 1) => seen_hashes = {}
  /\ (photos.pc = "photos_sqlite" /\ photos.handled = 0)
       => photos.seen_hashes = {}
  /\ pc \in {"loop", "done"} => seen_hashes \subseteq AudioRowHashes
  /\ photos.pc # "idle" => photos.seen_hashes \subseteq PhotoRowHashes

C18_Witness ==
  /\ runs = 2
  /\ pc = "done"
  /\ "h3" \in seen_hashes
  /\ "h3" \in earlier
  /\ photos.pc = "done"
  /\ \E k \in DOMAIN photos.data_list :
       /\ photos.data_list[k].file_hash = "h3"
       /\ photos.data_list[k].source_app = "WhatsApp"

(***************************************************************************)
(* Further properties of the path classifier.                              *)
(***************************************************************************)
\* the path as the matching of the call takes it
MatchedPath == normsep(cl_call.platform, cl_call.file_path)

\* C22: classify_audio_file returns a result for every path and size; a
\* path that matches no pattern of any category gets 'Unknown Audio',
\* 'Unclassified', MEDIUM, 2.
C22_UnmatchedIsUnknown ==
  cl_call.state = "returned"
  => /\ cl_call.result.audio_type
          \in {AUDIO_CATEGORIES[c].name : c \in DOMAIN AUDIO_CATEGORIES}
                \cup {"Unknown Audio"}
     /\ MatchSet(MatchedPath) = {}
          => cl_call.result
               = [ audio_type |-> "Unknown Audio",
                   functional_category |-> "Unclassified",
                   forensic_relevance |-> "MEDIUM", relevance_score |-> 2 ]

C22_Witness ==
  /\ cl_call.state = "returned"
  /\ MatchSet(MatchedPath) = {}
  /\ cl_call.file_path # <<>>
  /\ cl_call.result.audio_type = "Unknown Audio"
  /\ cl_call.result.relevance_score = 2

\* the category of the table with the given display name
CategoryNamed(name) ==
  CHOOSE c \in DOMAIN AUDIO_CATEGORIES : AUDIO_CATEGORIES[c].name = name

\* C30: in AUDIO_CATEGORIES the scores do not increase in declaration order
\* and the declaration order is the descending order of PATTERN_PRIORITIES;
\* the category classify_audio_file returns has the highest score and the
\* highest priority among the categories with a matching pattern.
C30_FirstMatchIsHighest ==
  /\ \A j, k \in DOMAIN CategoryOrder :
       j < k => /\ AUDIO_CATEGORIES[CategoryOrder[j]].score
                     >= AUDIO_CATEGORIES[CategoryOrder[k]].score
                /\ PATTERN_PRIORITIES[CategoryOrder[j]]
                     > PATTERN_PRIORITIES[CategoryOrder[k]]
  /\ (cl_call.state = "returned" /\ MatchSet(MatchedPath) # {})
       => \A k \in MatchSet(MatchedPath) :
            /\ cl_call.result.relevance_score
                 >= AUDIO_CATEGORIES[CategoryOrder[k]].score
            /\ PATTERN_PRIORITIES[CategoryNamed(cl_call.result.audio_type)]
                 >= PATTERN_PRIORITIES[CategoryOrder[k]]

C30_Witness ==
  /\ cl_call.state = "returned"
  /\ \E k \in MatchSet(MatchedPath) :
       /\ AUDIO_CATEGORIES[CategoryOrder[k]].score < cl_call.result.relevance_score
       /\ PATTERN_PRIORITIES[CategoryOrder[k]]
            < PATTERN_PRIORITIES[CategoryNamed(cl_call.result.audio_type)]
  /\ cl_call.result.relevance_score = 3

(***************************************************************************)
(* Further properties of the rows of allUserAudio.                         *)
(***************************************************************************)
\* C27: every row whose classification method is Database-enhanced has a
\* non-empty database reference, the category User Content or Communication
\* Audio, tier HIGH, score 3 and a subtype among Voice Recording, Voicemail
\* and Voice Message.
C27_EnhancedRowsAreBoosted ==
  \A k \in DOMAIN data_list :
    data_list[k].classification_method = "Database-enhanced"
    => /\ data_list[k].database_reference # <<>>
       /\ data_list[k].audio_type
            \in {AUDIO_CATEGORIES["USER_CONTENT"].name,
                 AUDIO_CATEGORIES["COMMUNICATION_AUDIO"].name}
       /\ data_list[k].forensic_relevance = "HIGH"
       /\ data_list[k].relevance_score = 3
       /\ data_list[k].functional_category
            \in {"Voice Recording", "Voicemail", "Voice Message"}

C27_Witness ==
  \E k \in DOMAIN data_list :
    /\ data_list[k].classification_method = "Database-enhanced"
    /\ data_list[k].relevance_score = 3
    /\ ClassTable[audio_files[origin[k]]].forensic_relevance # "HIGH"
    /\ ClassTable[audio_files[origin[k]]].functional_category
         \notin {"Voice Recording", "Voicemail", "Voice Message"}

\* the pass of the i-th candidate ended in the handler of the loop
Failed(i) == Files[audio_files[i]].exists /\ ~WellFormed(audio_files[i])

\* C25: every hash of the seen set is the content hash of a row of the run;
\* a candidate whose pass fails leaves no hash behind, so a candidate with a
\* hash has a row for its content whatever failed before it.
C25_SeenHashesHaveRows ==
  pc \in {"loop", "done"}
  => /\ seen_hashes \subseteq AudioRowHashes
     /\ \A i \in Passed :
          Failed(i) =>
            \/ calculate_file_hash(audio_files[i]) \notin seen_hashes
            \/ \E k \in DOMAIN origin :
                 /\ origin[k] # i
                 /\ calculate_file_hash(audio_files[origin[k]])
                      = calculate_file_hash(audio_files[i])
     /\ \A j \in Passed :
          Hashable(audio_files[j])
          => \E k \in DOMAIN origin :
               /\ origin[k] <= j
               /\ calculate_file_hash(audio_files[origin[k]])
                    = calculate_file_hash(audio_files[j])

C25_Witness ==
  /\ pc = "loop"
  /\ last.outcome = "emitted"
  /\ last.file_hash \in seen_hashes
  /\ \E i \in Passed :
       /\ Failed(i)
       /\ i < idx - 1
       /\ calculate_file_hash(audio_files[i]) = last.file_hash

(***************************************************************************)
(* Further properties of the correlator.                                   *)
(***************************************************************************)
\* the signatures whose path test the database d passes and whose lookup
\* returns a row of d for the audio file a
SignatureRows ==
  [ d \in DbIds |-> [ a \in AudioIds |->
      { k \in DOMAIN Signatures :
          /\ SignatureTest(Signatures[k].id, Lower(str(d)))
          /\ Lookup(Signatures[k].id, Files[d], basename(str(a))).kind = "ret" } ] ]

\* C23: a database whose lookup under the first signature that recognises
\* it fails is looked up under the next signature that recognises it: the
\* row has the context of the first database of the pool that holds a row
\* under any of its signatures, from the first such signature.
C23_NextSignatureOfSameDatabase ==
  last.outcome = "emitted"
  => \A i \in DOMAIN pool :
       (/\ SignatureRows[pool[i]][last.file] # {}
        /\ \A j \in 1..(i - 1) : SignatureRows[pool[j]][last.file] = {})
       => LET s == Signatures[Least(SignatureRows[pool[i]][last.file])]
          IN /\ last.db_context["database_reference"]
                  = Lookup(s.id, Files[pool[i]],
                           basename(str(last.file))).val.database_reference
             /\ last.db_context["classification_boost"] = s.boost

\* the Telegram databases of files_found named db_sqlite that hold a row
\* for the audio file a
TelegramRows(a) ==
  { k \in DOMAIN files_found :
      /\ files_found[k] \in DbIds
      /\ basename(str(files_found[k])) = <<"db_sqlite">>
      /\ In(<<"telegram">>, Lower(str(files_found[k])))
      /\ analyze_telegram_db(Files[files_found[k]],
                             basename(str(a))).kind = "ret" }

\* C24: a Telegram database db_sqlite of files_found is probed: when it
\* holds a row for the candidate and no database before it returns a
\* context, the row has the reference 'Telegram voice message' and the
\* boost COMMUNICATION_AUDIO.
C24_TelegramDbSqliteIsProbed ==
  (/\ last.outcome = "emitted"
   /\ TelegramRows(last.file) # {}
   /\ \A k \in DOMAIN files_found :
        (k < Least(TelegramRows(last.file)) /\ files_found[k] \in DbIds)
        => ContextTable[files_found[k]][last.file].kind # "ret")
  => /\ last.db_context["database_reference"]
          = <<"Telegram", " ", "voice", " ", "message">>
     /\ last.db_context["classification_boost"] = "COMMUNICATION_AUDIO"

(***************************************************************************)
(* The empty hash.                                                         *)
(***************************************************************************)
\* a step of process_whatsapp_media or of its fallback for a file that is
\* new to seen_files, is a photo or a video and has no hash
UnhashedWhatsAppStep ==
  /\ photos.pc = "whatsapp"
  /\ photos'.pc = "whatsapp"
  /\ photos'.handled = photos.handled + 1
  /\ \/ \E record \in WhatsAppRecords :
          /\ photos' = [ whatsapp_record(photos, record) EXCEPT !.handled = @ + 1 ]
          /\ record.found = <<"">>
          /\ record.media_path \notin photos.seen_files
          /\ record.media_type \in {"Photo", "Video"}
     \/ \E media_file \in WhatsAppFiles :
          /\ photos' = [ whatsapp_file(photos, media_file) EXCEPT !.handled = @ + 1 ]
          /\ media_file.file_hash = ""
          /\ media_file.file_path \notin photos.seen_files
          /\ media_file.media_type \in {"Photo", "Video"}

\* C26: the seen-hash sets of allUserAudio and of allUserPhotos never hold
\* the empty hash, and a WhatsApp file without a hash is never skipped: its
\* row is appended with path verified.
C26_EmptyHashNeverSeen ==
  /\ []("" \notin seen_hashes /\ "" \notin photos.seen_hashes)
  /\ [][UnhashedWhatsAppStep
          => /\ Len(photos'.data_list) = Len(photos.data_list) + 1
             /\ photos'.data_list[Len(photos'.data_list)].file_hash = ""
             /\ photos'.data_list[Len(photos'.data_list)].path_verified]_vars

C26_Witness ==
  /\ \E k \in DOMAIN origin : calculate_file_hash(audio_files[origin[k]]) = ""
  /\ seen_hashes # {}
  /\ \E i, j \in DOMAIN photos.data_list :
       /\ i < j
       /\ photos.data_list[i].source_app = "WhatsApp"
       /\ photos.data_list[j].source_app = "WhatsApp"
       /\ photos.data_list[i].file_hash = ""
       /\ photos.data_list[j].file_hash = ""
       /\ photos.data_list[j].path_verified

(***************************************************************************)
(* Further properties of the AggregationEngine.                            *)
(***************************************************************************)
\* the report_* calls since the last reset
ReportsSinceReset ==
  SelectSeq(SinceReset(calls), LAMBDA c : c.op # "AggregationEngine")

\* C28: has_data() is True exactly when a report_* call was made since the
\* last reset, report_processing_error included, so it is True whenever
\* the engine holds reported errors.
C28_HasDataIffReported ==
  snap.state = "none"
  => /\ has_data(engine) <=> ReportsSinceReset # <<>>
     /\ errors # <<>> => has_data(engine)

\* the counters of the engine
Counters ==
  {"_messaging_apps", "_social_media_apps", "_location_sources",
   "_device_info", "_artifact_counts"}

\* the step is a class-method call other than reset and clear_all_data, or
\* a construction
KeepingStep ==
  \/ /\ Len(calls') = Len(calls) + 1
     /\ calls'[Len(calls')].op \notin {"reset", "clear_all_data"}
  \/ snap.state = "none" /\ snap'.state = "taken"

\* C29: a construction returns the instance as it is, and no report_* or
\* get_* call and no construction empties a counter or the list of
\* errors: only reset() and clear_all_data() do.
C29_OnlyResetEmpties ==
  [][/\ KeepingStep
          => /\ engine'._initialized
             /\ \A c \in Counters :
                  \A i \in DOMAIN engine[c] : DictHas(engine'[c], engine[c][i][1])
             /\ Len(heap'[engine'._processing_errors]) >= Len(errors)
     /\ calls' = Append(calls, [op |-> "AggregationEngine", key |-> "",
                                count |-> 0])
          => engine' = engine /\ heap' = heap]_vars

C29_Witness ==
  /\ Len(calls) >= 2
  /\ LastCall.op = "AggregationEngine"
  /\ calls[Len(calls) - 1].op = "report_messaging_count"
  /\ engine._messaging_apps # <<>>
  /\ engine._initialized

====
